---- MODULE Spec2Model ----
(***************************************************************************)
(* Verification model of the obsidian-migration crate (migration_rs):      *)
(* wiki-link parsing, linkable / link extraction, spawn-relation           *)
(* inference, frontmatter recognition, the legacy-record grouper, the      *)
(* two-pass patch reconciler, the vault drivers of the two subcommands,    *)
(* the conversion of a note into a cluster note and context_type_is_doer.  *)
(*                                                                         *)
(* A Rust String is modelled as a sequence of one-character strings.       *)
(* Option<T> is modelled as a record [some, val].                          *)
(***************************************************************************)
EXTENDS Integers, Sequences, FiniteSets, TLC

VARIABLES
    pc,                 \* position of the driver in the operation under check
    token,              \* input of ObsidianLink::from_str
    link,               \* its result
    events,             \* the event sequence of the document
    linkables,          \* result of extract_linkable_obsidian_md_items
    links,              \* result of extract_obsidian_md_links
    spawn_metadata,     \* result of extract_spawn_metadata_from_old_format
    mut_cur,            \* get_note_old_format_entries: cursor of the segmenter
    mut_grouped_events, \* get_note_old_format_entries: groups emitted so far
    old_format_entries, \* result of get_note_old_format_entries
    prop,               \* key looked up by get_file_frontmatter_note_property
    props,              \* result of parse_markdown_file_frontmatter_section
    note_property,      \* result of get_file_frontmatter_note_property
    old_content,        \* patch reconciler: the original text
    new_content,        \* patch reconciler: the rendered text
    cur_old,            \* tokens of the old side consumed by the running diff
    cur_new,            \* tokens of the new side consumed by the running diff
    changes1,           \* pass 1: the word-level changes walked so far
    new_content1,       \* pass 1: mut_out
    changes2,           \* pass 2: the character-level changes walked so far
    out2,               \* pass 2: mut_out
    heading_text,       \* strip_autonumbered_sections: the heading text passed
    stripped,           \* strip_autonumbered_sections: the text returned
    command,            \* the subcommand of the run
    vault,              \* the markdown files of the vault, in walking order
    cur_item,           \* the files the driver loop has gone through
    outputs,            \* per file: what the run did to it
    path,               \* turn_note_into_cluster_note: the note passed
    fs,                 \* the note, the new folder and the copy on disk
    fs_before,          \* the same before the call
    out,                \* turn_note_into_cluster_note: the Result returned
    context_type_id,    \* context_type_is_doer: its argument
    is_doer             \* context_type_is_doer: what the call did

vars == <<pc, token, link, events, linkables, links, spawn_metadata, mut_cur,
          mut_grouped_events, old_format_entries, prop, props, note_property,
          old_content, new_content, changes1, new_content1, cur_old, cur_new,
          changes2, out2, heading_text, stripped, command, vault, cur_item, outputs,
          path, fs, fs_before, out, context_type_id, is_doer>>

linkVars == <<token, link>>
legacyVars == <<mut_cur, mut_grouped_events, old_format_entries>>
docVars == <<events, linkables, links, spawn_metadata, legacyVars>>
fmVars == <<prop, props, note_property>>
patchVars == <<old_content, new_content, cur_old, cur_new, changes1,
               new_content1, changes2, out2>>
stripVars == <<heading_text, stripped>>
vaultVars == <<command, vault, cur_item, outputs>>
turnVars == <<path, fs, fs_before, out>>
doerVars == <<context_type_id, is_doer>>

-----------------------------------------------------------------------------
(* Bounds of the model *)

\* longest inner text of a wiki-link token drawn for ObsidianLink::from_str
MaxInner == 5

\* longest document of the extractor specification, in events
MaxDocEvents == 2

\* longest short text drawn for the block-identifier scan
MaxIdLen == 3

\* most events between the heading tags of a drawn frontmatter block
MaxFmBody == 2

\* most building blocks (headings, content events) of a drawn legacy document;
\* a document with a malformed heading holds one block fewer
MaxBlocks == 4

\* most word-level tokens of the original and the rendered text together, and
\* of the original when the rendered text equals it
MaxWords == 3

\* most characters of a drawn heading text
MaxHeadingLen == 5

\* most markdown files of a drawn vault
MaxFiles == 2

-----------------------------------------------------------------------------
(* Option<T> *)

None == [some |-> FALSE, val |-> <<>>]

Some(v) == [some |-> TRUE, val |-> v]

-----------------------------------------------------------------------------
(* Strings: sequences of characters, with the std::str operations used *)

\* char::is_whitespace, on the characters of the model
IsWhitespace(c) == c \in {" ", "\n", "\t"}

\* char::is_alphanumeric, on the characters of the model
IsAlphanumeric(c) ==
    c \in {"a", "b", "c", "d", "e", "g", "h", "i", "k", "l", "m", "n", "o", "p",
           "r", "s", "t", "u", "v", "w", "x", "y", "F", "H", "I", "N", "O", "S",
           "T", "U", "0", "1", "2", "4", "é"}

\* char::len_utf8: the model has one two-byte character
ByteLen(c) == IF c = "é" THEN 2 ELSE 1

RECURSIVE ByteLength(_)
ByteLength(s) == IF s = <<>> THEN 0 ELSE ByteLen(Head(s)) + ByteLength(Tail(s))

\* s.chars().skip(n)
Skip(s, n) == IF n >= Len(s) THEN <<>> ELSE SubSeq(s, n + 1, Len(s))

\* s.chars().take(n)
Take(s, n) == IF n >= Len(s) THEN s ELSE SubSeq(s, 1, n)

\* str::starts_with
StartsWith(s, p) == Len(p) <= Len(s) /\ SubSeq(s, 1, Len(p)) = p

\* str::ends_with
EndsWith(s, p) == Len(p) <= Len(s) /\ SubSeq(s, Len(s) - Len(p) + 1, Len(s)) = p

\* str::contains
Contains(s, p) == \E i \in 0..(Len(s) - Len(p)) : StartsWith(Skip(s, i), p)

\* the character offset of the first occurrence of p in s (-1 when absent)
FindChar(s, p) ==
    IF Contains(s, p)
    THEN CHOOSE i \in 0..(Len(s) - Len(p)) :
            /\ StartsWith(Skip(s, i), p)
            /\ \A j \in 0..(i - 1) : ~StartsWith(Skip(s, j), p)
    ELSE -1

\* str::find: the BYTE offset of the first occurrence of p in s (-1 when absent)
Find(s, p) == IF Contains(s, p) THEN ByteLength(Take(s, FindChar(s, p))) ELSE -1

\* str::replace(p, ""): every non-overlapping occurrence of p removed, left to
\* right; an empty pattern matches between characters and removes nothing
RECURSIVE Remove(_, _)
Remove(s, p) ==
    IF p = <<>> \/ s = <<>> THEN s
    ELSE IF StartsWith(s, p) THEN Remove(Skip(s, Len(p)), p)
    ELSE <<Head(s)>> \o Remove(Tail(s), p)

\* str::split(p) for a non-empty pattern: the pieces between occurrences
RECURSIVE Split(_, _)
Split(s, p) ==
    IF ~Contains(s, p) THEN <<s>>
    ELSE <<Take(s, FindChar(s, p))>> \o Split(Skip(s, FindChar(s, p) + Len(p)), p)

RECURSIVE TrimStart(_)
TrimStart(s) ==
    IF s # <<>> /\ IsWhitespace(Head(s)) THEN TrimStart(Tail(s)) ELSE s

RECURSIVE TrimEnd(_)
TrimEnd(s) ==
    IF s # <<>> /\ IsWhitespace(s[Len(s)]) THEN TrimEnd(SubSeq(s, 1, Len(s) - 1)) ELSE s

\* str::trim
Trim(s) == TrimEnd(TrimStart(s))

\* s.chars().filter(|c| *c == ch).count()
RECURSIVE CountChar(_, _)
CountChar(s, ch) ==
    IF s = <<>> THEN 0
    ELSE (IF Head(s) = ch THEN 1 ELSE 0) + CountChar(Tail(s), ch)

\* s.chars().position(|c| c == ch), as an Option
Position(s, ch) ==
    IF \E i \in 1..Len(s) : s[i] = ch
    THEN Some((CHOOSE i \in 1..Len(s) : s[i] = ch /\ \A j \in 1..(i - 1) : s[j] # ch) - 1)
    ELSE None

\* all sequences over S of length at most n
SeqsUpTo(S, n) == UNION {[1..k -> S] : k \in 0..n}

-----------------------------------------------------------------------------
(* ObsidianLink::from_str *)

LB == <<"[", "[">>

RB == <<"]", "]">>

LinkErr(kind, s) ==
    [err |-> kind, text |-> s, opt_file_link |-> None, opt_sublink |-> None,
     opt_title |-> None]

\* mutant of LinkArity: the bar count is checked before the hash count
LinkArity_BarFirst(remaining_s) ==
    LET count_hash == CountChar(remaining_s, "#")
        count_bar == CountChar(remaining_s, "|")
    IN  IF count_bar > 1 THEN "MustHaveZeroOrOneBar"
        ELSE IF count_hash > 1 THEN "MustHaveZeroOrOneHash"
        ELSE "Ok"

\* the arity checks on the text between the brackets: "Ok" or the error kind
LinkArity(remaining_s) ==
    LET count_hash == CountChar(remaining_s, "#")
        count_bar == CountChar(remaining_s, "|")
    IN  IF count_hash > 1 THEN "MustHaveZeroOrOneHash"
        ELSE IF count_bar > 1 THEN "MustHaveZeroOrOneBar"
        ELSE "Ok"

\* the title: everything from the | to the end
LinkTitle(remaining_s) ==
    LET opt_title_pos == Position(remaining_s, "|")
    IN  IF opt_title_pos.some THEN Some(Skip(remaining_s, opt_title_pos.val))
        ELSE None

\* mutant of LinkSublink: the title is not removed before the sublink is cut
LinkSublink_KeepsTitle(remaining_s, opt_title) ==
    LET opt_sublink_pos == Position(remaining_s, "#")
    IN  IF opt_sublink_pos.some
        THEN Some(Skip(remaining_s, opt_sublink_pos.val))
        ELSE None

\* the sublink: from the # on, in the text with the title removed
LinkSublink(remaining_s, opt_title) ==
    LET opt_sublink_pos == Position(remaining_s, "#")
    IN  IF opt_sublink_pos.some
        THEN LET remaining_s2 ==
                    IF opt_title.some THEN Remove(remaining_s, opt_title.val)
                    ELSE remaining_s
             IN  Some(Skip(remaining_s2, opt_sublink_pos.val))
        ELSE None

\* the file target: what remains once the title and the sublink are removed
LinkFile(remaining_s, opt_title, opt_sublink) ==
    LET s1 == IF opt_title.some THEN Remove(remaining_s, opt_title.val)
              ELSE remaining_s
        remaining_s2 == IF opt_sublink.some THEN Remove(s1, opt_sublink.val)
                        ELSE s1
    IN  IF remaining_s2 = <<>> THEN None ELSE Some(remaining_s2)

ObsidianLink_from_str(s) ==
    IF ~StartsWith(s, LB) \/ ~EndsWith(s, RB) THEN LinkErr("NoBracketsFound", s)
    ELSE
    LET remaining_s == Remove(Remove(s, LB), RB)
    IN  IF LinkArity(remaining_s) # "Ok" THEN LinkErr(LinkArity(remaining_s), s)
        ELSE
        LET opt_title == LinkTitle(remaining_s)
            opt_sublink == LinkSublink(remaining_s, opt_title)
        IN  [err |-> "Ok", text |-> s,
             opt_file_link |-> LinkFile(remaining_s, opt_title, opt_sublink),
             opt_sublink |-> opt_sublink, opt_title |-> opt_title]

-----------------------------------------------------------------------------
(* Events (pulldown_cmark::Event), as far as the crate looks at them *)

Ev(kind, level, text) == [kind |-> kind, level |-> level, text |-> text]

HeadingStart(level) == Ev("HeadingStart", level, <<>>)

HeadingEnd(level) == Ev("HeadingEnd", level, <<>>)

Text(text) == Ev("Text", 0, text)

\* events the crate never examines: SoftBreak, Rule, and a paragraph start/end
SoftBreak == Ev("SoftBreak", 0, <<>>)

Rule == Ev("Rule", 0, <<>>)

ParagraphStart == Ev("ParagraphStart", 0, <<>>)

ParagraphEnd == Ev("ParagraphEnd", 0, <<>>)

-----------------------------------------------------------------------------
(* parse_multiple_obsidian_links and extract_obsidian_md_links *)

\* the [[...]] tokens cut out of a text: the pieces between "[[" that hold a
\* "]]", each cut after (byte offset of "]]") + 2 CHARACTERS
RECURSIVE TokensOfPieces(_)
TokensOfPieces(pieces) ==
    IF pieces = <<>> THEN <<>>
    ELSE LET piece == Head(pieces)
         IN  (IF Contains(piece, RB)
              THEN <<LB \o Take(piece, Find(piece, RB) + Len(RB))>>
              ELSE <<>>) \o TokensOfPieces(Tail(pieces))

LinkTokensOf(s) == TokensOfPieces(Split(s, LB))

\* Result<Vec<ObsidianLink>, ObsidianLinkParseError>: the first error wins
parse_multiple_obsidian_links(s) ==
    LET tokens == LinkTokensOf(s)
        parsed == [i \in 1..Len(tokens) |-> ObsidianLink_from_str(tokens[i])]
        bad == {i \in 1..Len(tokens) : parsed[i].err # "Ok"}
    IN  IF bad # {}
        THEN [err |-> parsed[CHOOSE i \in bad : \A j \in bad : i <= j].err,
              links |-> <<>>]
        ELSE [err |-> "Ok", links |-> parsed]

RECURSIVE LinkItems(_)
LinkItems(evs) ==
    IF evs = <<>> THEN <<>>
    ELSE LET event == Head(evs)
             found == IF event.kind = "Text"
                      THEN parse_multiple_obsidian_links(event.text).links
                      ELSE <<>>
         IN  (IF found = <<>> THEN <<>>
              ELSE <<[links |-> found, event |-> event]>>) \o LinkItems(Tail(evs))

\* Result<Vec<ObsidianLinkItem>, ExtractOBsidianMdLinksError>
extract_obsidian_md_links(evs) ==
    LET bad == {i \in 1..Len(evs) :
                    /\ evs[i].kind = "Text"
                    /\ parse_multiple_obsidian_links(evs[i].text).err # "Ok"}
    IN  IF bad # {}
        THEN [err |-> parse_multiple_obsidian_links(
                          evs[CHOOSE i \in bad : \A j \in bad : i <= j].text).err,
              items |-> <<>>]
        ELSE [err |-> "Ok", items |-> LinkItems(evs)]

NoLinks == [err |-> "NotRun", items |-> <<>>]

-----------------------------------------------------------------------------
(* process_heading_event, BlockIdentifier and extract_linkable_obsidian_md_items *)

\* Option<(HeadingLevel, String)> for the events from one position on; a
\* heading end of another level is logged and still accepted
process_heading_event(evs) ==
    IF Len(evs) < 3 THEN None
    ELSE IF evs[1].kind # "HeadingStart" THEN None
    ELSE IF evs[2].kind # "Text" THEN None
    ELSE IF evs[3].kind # "HeadingEnd" THEN None
    ELSE Some([level |-> evs[1].level, text |-> evs[2].text])

\* Result<BlockIdentifier, ()> as an Option
BlockIdentifier_from_str(s) ==
    IF ~StartsWith(s, <<"^">>) THEN None
    ELSE IF \A i \in 2..Len(s) : IsAlphanumeric(s[i]) \/ s[i] = "-"
         THEN Some(s)
         ELSE None

\* cow_str.chars().rev().position(|c| c == '^'), as an Option
RevCaretPos(s) == Position([i \in 1..Len(s) |-> s[Len(s) + 1 - i]], "^")

\* the block identifier read off the end of a Text event's text
TrailingBlockIdentifier(s) ==
    LET rev_caret_pos == RevCaretPos(s)
    IN  IF ~rev_caret_pos.some THEN None
        ELSE BlockIdentifier_from_str(Skip(s, Len(s) - rev_caret_pos.val))

HeadingData(level, text) == [kind |-> "Heading", level |-> level, text |-> text]

BlockIdentifierData(text) == [kind |-> "BlockIdentifier", level |-> 0, text |-> text]

RECURSIVE HeadingItems(_)
HeadingItems(evs) ==
    IF evs = <<>> THEN <<>>
    ELSE LET heading_tup == process_heading_event(evs)
         IN  (IF heading_tup.some
              THEN <<[item_data |-> HeadingData(heading_tup.val.level,
                                                heading_tup.val.text),
                      event |-> Head(evs)]>>
              ELSE <<>>) \o HeadingItems(Tail(evs))

RECURSIVE BlockIdentifierItems(_)
BlockIdentifierItems(evs) ==
    IF evs = <<>> THEN <<>>
    ELSE LET event == Head(evs)
             block_identifier == IF event.kind = "Text"
                                 THEN TrailingBlockIdentifier(event.text)
                                 ELSE None
         IN  (IF block_identifier.some
              THEN <<[item_data |-> BlockIdentifierData(block_identifier.val),
                      event |-> event]>>
              ELSE <<>>) \o BlockIdentifierItems(Tail(evs))

extract_linkable_obsidian_md_items(evs) ==
    HeadingItems(evs) \o BlockIdentifierItems(evs)

-----------------------------------------------------------------------------
(* extract_spawn_metadata_from_old_format *)

S_Spawn == <<"S", "p", "a", "w", "n", " ">>

S_CaretSpawn == <<"^", "s", "p", "a", "w", "n">>

S_From == <<"F", "r", "o", "m", " ">>

S_in == <<"i", "n">>

S_spawn == <<"s", "p", "a", "w", "n">>

\* GetEventText::get_event_text, as an Option
get_event_text(item) ==
    IF item.event.kind = "Text" THEN Some(item.event.text) ELSE None

\* the (linkable, link) pairs of the cartesian product that share their event,
\* linkables outermost
RECURSIVE SharedEventItems(_, _)
SharedEventItems(lks, lns) ==
    IF lks = <<>> THEN <<>>
    ELSE LET linkable == Head(lks)
             IsShared(ln) == linkable.event = ln.event
             same == SelectSeq(lns, IsShared)
         IN  [i \in 1..Len(same) |-> [linkable |-> linkable, link |-> same[i]]]
                \o SharedEventItems(Tail(lks), lns)
\* mutant of Spawns: the event's text is not trimmed before the "Spawn " test
RECURSIVE Spawns_NoTrim(_)
Spawns_NoTrim(pairs) ==
    IF pairs = <<>> THEN <<>>
    ELSE LET linkable == Head(pairs).linkable
             ln == Head(pairs).link
             keep ==
                /\ linkable.item_data.kind = "BlockIdentifier"
                /\ StartsWith(linkable.item_data.text, S_CaretSpawn)
                /\ get_event_text(linkable).some
                /\ StartsWith(get_event_text(linkable).val, S_Spawn)
                /\ Len(ln.links) = 1
         IN  (IF keep
              THEN <<[kind |-> "Spawning", event |-> ln.event,
                      note_link |-> ln.links[1],
                      block_identifier |-> linkable.item_data.text]>>
              ELSE <<>>) \o Spawns_NoTrim(Tail(pairs))

RECURSIVE Spawns(_)
Spawns(pairs) ==
    IF pairs = <<>> THEN <<>>
    ELSE LET linkable == Head(pairs).linkable
             ln == Head(pairs).link
             keep ==
                /\ linkable.item_data.kind = "BlockIdentifier"
                /\ StartsWith(linkable.item_data.text, S_CaretSpawn)
                /\ get_event_text(linkable).some
                /\ StartsWith(Trim(get_event_text(linkable).val), S_Spawn)
                /\ Len(ln.links) = 1
         IN  (IF keep
              THEN <<[kind |-> "Spawning", event |-> ln.event,
                      note_link |-> ln.links[1],
                      block_identifier |-> linkable.item_data.text]>>
              ELSE <<>>) \o Spawns(Tail(pairs))
\* mutant of Spawned: the text is not required to contain "in"
RECURSIVE Spawned_NoInCheck(_)
Spawned_NoInCheck(lns) ==
    IF lns = <<>> THEN <<>>
    ELSE LET ln == Head(lns)
             keep ==
                /\ Len(ln.links) = 2
                /\ get_event_text(ln).some
                /\ StartsWith(get_event_text(ln).val, S_From)
                /\ Contains(ln.links[1].text, S_spawn)
             block_identifier ==
                IF keep /\ ln.links[1].opt_sublink.some
                THEN BlockIdentifier_from_str(
                        Remove(ln.links[1].opt_sublink.val, <<"#">>))
                ELSE None
         IN  (IF block_identifier.some
              THEN <<[kind |-> "Spawned", event |-> ln.event,
                      note_link |-> ln.links[2],
                      block_identifier |-> block_identifier.val]>>
              ELSE <<>>) \o Spawned_NoInCheck(Tail(lns))

RECURSIVE Spawned(_)
Spawned(lns) ==
    IF lns = <<>> THEN <<>>
    ELSE LET ln == Head(lns)
             keep ==
                /\ Len(ln.links) = 2
                /\ get_event_text(ln).some
                /\ StartsWith(get_event_text(ln).val, S_From)
                /\ Contains(get_event_text(ln).val, S_in)
                /\ Contains(ln.links[1].text, S_spawn)
             block_identifier ==
                IF keep /\ ln.links[1].opt_sublink.some
                THEN BlockIdentifier_from_str(
                        Remove(ln.links[1].opt_sublink.val, <<"#">>))
                ELSE None
         IN  (IF block_identifier.some
              THEN <<[kind |-> "Spawned", event |-> ln.event,
                      note_link |-> ln.links[2],
                      block_identifier |-> block_identifier.val]>>
              ELSE <<>>) \o Spawned(Tail(lns))

extract_spawn_metadata_from_old_format(lks, lns) ==
    Spawns(SharedEventItems(lks, lns)) \o Spawned(lns)

-----------------------------------------------------------------------------
(* parse_markdown_file_frontmatter_section, get_file_frontmatter_note_property *)

\* mutant of FrontmatterStep: a heading end of any level closes the block
FrontmatterStep_AnyLevel(event) ==
    IF event.kind = "HeadingEnd" THEN "done"
    ELSE IF event.kind = "Text"
         THEN (IF Len(Split(event.text, <<":">>)) # 2 THEN "break" ELSE "push")
    ELSE IF event.kind = "SoftBreak" THEN "continue"
    ELSE "break"

\* one iteration of the loop over events[2..]: what the match arm does
FrontmatterStep(event) ==
    IF event.kind = "HeadingEnd"
    THEN (IF event.level # 2 THEN "break" ELSE "done")
    ELSE IF event.kind = "Text"
         THEN (IF Len(Split(event.text, <<":">>)) # 2 THEN "break" ELSE "push")
    ELSE IF event.kind = "SoftBreak" THEN "continue"
    ELSE "break"

\* the loop: Some(mut_props) when it ended on /H2, None when the format broke
\* or the events ran out
RECURSIVE FrontmatterProps(_, _)
FrontmatterProps(evs, mut_props) ==
    IF evs = <<>> THEN None
    ELSE LET step == FrontmatterStep(Head(evs))
         IN  IF step = "done" THEN Some(mut_props)
             ELSE IF step = "break" THEN None
             ELSE IF step = "push"
                  THEN LET split == Split(Head(evs).text, <<":">>)
                       IN  FrontmatterProps(Tail(evs),
                                Append(mut_props, <<split[1], split[2]>>))
             ELSE FrontmatterProps(Tail(evs), mut_props)

\* on the events of the file (an unreadable file yields None before this)
parse_markdown_file_frontmatter_section(evs) ==
    IF Len(evs) < 3 THEN None
    ELSE IF evs[1].kind # "Rule" THEN None
    ELSE IF ~(evs[2].kind = "HeadingStart" /\ evs[2].level = 2) THEN None
    ELSE FrontmatterProps(Skip(evs, 2), <<>>)

\* the value cleaned of its boxes: every "[[" and every "]]" is removed
NoteLinkOfValue(matching_value) == Remove(Remove(matching_value, LB), RB)

get_file_frontmatter_note_property(evs, key) ==
    LET found == parse_markdown_file_frontmatter_section(evs)
    IN  IF ~found.some THEN None
        ELSE LET HasKey(kv) == kv[1] = key
                 matching == SelectSeq(found.val, HasKey)
             IN  IF matching = <<>> THEN None
                 ELSE LET matching_value == Trim(matching[1][2])
                      IN  IF ~StartsWith(matching_value, LB)
                                \/ ~EndsWith(matching_value, RB)
                          THEN None
                          ELSE Some(NoteLinkOfValue(matching_value))

-----------------------------------------------------------------------------
(* get_note_old_format_entries: segmenter, relevance filter, legacy entries *)

H_Tasks == <<"T", "a", "s", "k", "s">>

H_Issues == <<"I", "s", "s", "u", "e", "s">>

H_HowTos == <<"H", "o", "w", "T", "o", "s">>

H_Investigations == <<"I", "n", "v", "e", "s", "t", "i", "g", "a", "t", "i", "o", "n", "s">>

H_Ideas == <<"I", "d", "e", "a", "s">>

H_SideNotes == <<"S", "i", "d", "e", " ", "N", "o", "t", "e", "s">>

OLD_FORMAT_HEADINGS ==
    <<H_Tasks, H_Issues, H_HowTos, H_Investigations, H_Ideas, H_SideNotes>>
\* mutant of OldFormatEntryType_from_str: "Issues" is not accepted
OldFormatEntryType_from_str_NoIssues(s) ==
    IF s = H_Tasks THEN Some("Task")
    ELSE IF s = H_HowTos THEN Some("HowTo")
    ELSE IF s = H_Investigations THEN Some("Investigation")
    ELSE IF s = H_Ideas THEN Some("Idea")
    ELSE IF s = H_SideNotes THEN Some("SideNote")
    ELSE None

\* Result<OldFormatEntryType, OldFormatEntryTypeFromStrError> as an Option
OldFormatEntryType_from_str(s) ==
    IF s = H_Tasks THEN Some("Task")
    ELSE IF s = H_Issues THEN Some("Issue")
    ELSE IF s = H_HowTos THEN Some("HowTo")
    ELSE IF s = H_Investigations THEN Some("Investigation")
    ELSE IF s = H_Ideas THEN Some("Idea")
    ELSE IF s = H_SideNotes THEN Some("SideNote")
    ELSE None

IsDigit(c) == c \in {"0", "1", "2", "3", "4", "5", "6", "7", "8", "9"}

\* token.parse::<usize>().ok().is_some(), without the usize range: decimal
\* digits after an optional plus sign
ParsesAsUsize(tok) ==
    LET digits == IF tok # <<>> /\ Head(tok) = "+" THEN Tail(tok) ELSE tok
    IN  digits # <<>> /\ \A i \in 1..Len(digits) : IsDigit(digits[i])

is_autonumbered_section_segment(s) ==
    LET segs == Split(s, <<".">>)
    IN  \A i \in 1..Len(segs) : ParsesAsUsize(segs[i])

\* mutant of strip_autonumbered_sections: a text of one token is stripped too
strip_autonumbered_sections_AnyLength(s) ==
    LET tokens == Split(s, <<" ">>)
    IN  IF ~is_autonumbered_section_segment(tokens[1]) THEN s
        ELSE Remove(s, tokens[1])

strip_autonumbered_sections(s) ==
    LET tokens == Split(s, <<" ">>)
    IN  IF Len(tokens) < 2 THEN s
        ELSE IF ~is_autonumbered_section_segment(tokens[1]) THEN s
        ELSE Remove(s, tokens[1])

\* Result<String, ProcessHeadingEventError>
HeadingErr(kind) == [err |-> kind, text |-> <<>>]

process_heading_event_of_level(level, evs) ==
    IF Len(evs) < 3 THEN HeadingErr("RequiresThreeEvents")
    ELSE IF evs[1].kind # "HeadingStart"
         THEN HeadingErr(IF evs[1].kind \in {"ParagraphStart"}
                         THEN "InvalidStartTag" ELSE "InvalidScheme")
    ELSE IF evs[1].level # level THEN HeadingErr("WrongLevel")
    ELSE IF evs[2].kind # "Text" THEN HeadingErr("InvalidScheme")
    ELSE IF evs[3].kind # "HeadingEnd"
         THEN HeadingErr(IF evs[3].kind \in {"ParagraphEnd"}
                         THEN "InvalidEndTag" ELSE "InvalidScheme")
    ELSE IF evs[3].level # level THEN HeadingErr("ImbalancedHeadingLevels")
    ELSE [err |-> "Ok", text |-> evs[2].text]

\* Grouped::H1(String), Grouped::H2(String), Grouped::Content(&[Event]); start
\* is the offset of the group's first event (a slice is a view at an offset)
Grouped(kind, text, start, evs) ==
    [kind |-> kind, text |-> text, start |-> start, events |-> evs]
\* mutant of ContentRunEnd: the run holds one event
ContentRunEnd_OneEvent(evs, mut_inner_cur) ==
    IF mut_inner_cur >= Len(evs) THEN mut_inner_cur
    ELSE LET event == evs[mut_inner_cur + 1]
             keep_going == IF event.kind = "HeadingStart"
                           THEN event.level # 1 /\ event.level # 2
                           ELSE TRUE
         IN  IF keep_going THEN mut_inner_cur + 1 ELSE mut_inner_cur

\* the end of the run of events from cur on that starts no H1 or H2 heading
RECURSIVE ContentRunEnd(_, _)
ContentRunEnd(evs, mut_inner_cur) ==
    IF mut_inner_cur >= Len(evs) THEN mut_inner_cur
    ELSE LET event == evs[mut_inner_cur + 1]
             keep_going == IF event.kind = "HeadingStart"
                           THEN event.level # 1 /\ event.level # 2
                           ELSE TRUE
         IN  IF keep_going THEN ContentRunEnd(evs, mut_inner_cur + 1)
             ELSE mut_inner_cur

\* mutant of SegmentIteration: a content run is emitted and the cursor stays
SegmentIteration_ContentStays(evs, cur, groups) ==
    LET heading1 == process_heading_event_of_level(1, Skip(evs, cur))
        heading2 == process_heading_event_of_level(2, Skip(evs, cur))
        mut_inner_cur == ContentRunEnd(evs, cur)
    IN  IF heading1.err = "Ok"
        THEN [panic |-> FALSE, cur |-> cur + 3,
              groups |-> Append(groups, Grouped("H1", heading1.text, cur, <<>>))]
        ELSE IF heading2.err = "Ok"
        THEN [panic |-> FALSE, cur |-> cur + 3,
              groups |-> Append(groups, Grouped("H2", heading2.text, cur, <<>>))]
        ELSE IF groups # <<>>
        THEN (IF mut_inner_cur - cur > 0
              THEN [panic |-> FALSE, cur |-> cur,
                    groups |-> Append(groups,
                        Grouped("Content", <<>>, cur,
                                SubSeq(evs, cur + 1, mut_inner_cur)))]
              ELSE [panic |-> TRUE, cur |-> cur, groups |-> groups])
        ELSE [panic |-> FALSE, cur |-> cur + 1, groups |-> groups]

\* one iteration of the while loop of the segmenter: the new cursor, the new
\* groups, and whether the iteration panicked
SegmentIteration(evs, cur, groups) ==
    LET heading1 == process_heading_event_of_level(1, Skip(evs, cur))
        heading2 == process_heading_event_of_level(2, Skip(evs, cur))
        mut_inner_cur == ContentRunEnd(evs, cur)
    IN  IF heading1.err = "Ok"
        THEN [panic |-> FALSE, cur |-> cur + 3,
              groups |-> Append(groups, Grouped("H1", heading1.text, cur, <<>>))]
        ELSE IF heading2.err = "Ok"
        THEN [panic |-> FALSE, cur |-> cur + 3,
              groups |-> Append(groups, Grouped("H2", heading2.text, cur, <<>>))]
        ELSE IF groups # <<>>
        THEN (IF mut_inner_cur - cur > 0
              THEN [panic |-> FALSE, cur |-> mut_inner_cur,
                    groups |-> Append(groups,
                        Grouped("Content", <<>>, cur,
                                SubSeq(evs, cur + 1, mut_inner_cur)))]
              ELSE [panic |-> TRUE, cur |-> cur, groups |-> groups])
        ELSE [panic |-> FALSE, cur |-> cur + 1, groups |-> groups]

IsOldFormatHeading(heading1) ==
    \E i \in 1..Len(OLD_FORMAT_HEADINGS) :
        OLD_FORMAT_HEADINGS[i] = Trim(strip_autonumbered_sections(heading1))
\* mutant of RelevantGroups: only the irrelevant H1 groups themselves are
\* dropped, the groups under them and before the first H1 are kept
RECURSIVE RelevantGroups_KeepsChildren(_, _)
RelevantGroups_KeepsChildren(groups, mut_h1_is_relevant) ==
    IF groups = <<>> THEN <<>>
    ELSE LET grp == Head(groups)
         IN  IF grp.kind = "H1" /\ ~IsOldFormatHeading(grp.text)
             THEN RelevantGroups_KeepsChildren(Tail(groups), FALSE)
             ELSE <<grp>> \o RelevantGroups_KeepsChildren(Tail(groups), TRUE)

\* the first pass over the groups: those under a relevant H1, that H1 included
RECURSIVE RelevantGroups(_, _)
RelevantGroups(groups, mut_h1_is_relevant) ==
    IF groups = <<>> THEN <<>>
    ELSE LET grp == Head(groups)
         IN  IF grp.kind = "H1"
             THEN (IF ~IsOldFormatHeading(grp.text)
                   THEN RelevantGroups(Tail(groups), FALSE)
                   ELSE <<grp>> \o RelevantGroups(Tail(groups), TRUE))
             ELSE (IF ~mut_h1_is_relevant
                   THEN RelevantGroups(Tail(groups), mut_h1_is_relevant)
                   ELSE <<grp>> \o RelevantGroups(Tail(groups), mut_h1_is_relevant))

EntriesErr(kind) == [err |-> kind, entries |-> <<>>]

\* mutant of ContentEntry: a content group with no type or no name is skipped
ContentEntry_SkipsUnconfigured(grp, opt_type, opt_name, entries) ==
    IF ~opt_type.some \/ ~opt_name.some
    THEN [err |-> "Ok", entries |-> entries]
    ELSE [err |-> "Ok",
          entries |-> Append(entries,
                [entry_type |-> opt_type.val, entry_name |-> opt_name.val,
                 start |-> grp.start, events |-> grp.events])]

\* the Grouped::Content arm of the second pass
ContentEntry(grp, opt_type, opt_name, entries) ==
    IF ~opt_type.some THEN EntriesErr("EventTypeAndNameNotConfigured")
    ELSE IF ~opt_name.some THEN EntriesErr("EventTypeAndNameNotConfigured")
    ELSE [err |-> "Ok",
          entries |-> Append(entries,
                [entry_type |-> opt_type.val, entry_name |-> opt_name.val,
                 start |-> grp.start, events |-> grp.events])]
\* mutant of OldFormatEntries: an H2 sets the name only while none is set
RECURSIVE OldFormatEntries_KeepsFirstName(_, _, _, _)
OldFormatEntries_KeepsFirstName(groups, opt_type, opt_name, entries) ==
    IF groups = <<>> THEN [err |-> "Ok", entries |-> entries]
    ELSE LET grp == Head(groups)
         IN  IF grp.kind = "H1"
             THEN LET entry_type == OldFormatEntryType_from_str(
                                        Trim(strip_autonumbered_sections(grp.text)))
                  IN  IF ~entry_type.some THEN EntriesErr("InvalidEntryType")
                      ELSE OldFormatEntries_KeepsFirstName(Tail(groups), entry_type,
                                                           opt_name, entries)
             ELSE IF grp.kind = "H2"
             THEN OldFormatEntries_KeepsFirstName(Tail(groups), opt_type,
                        IF opt_name.some THEN opt_name ELSE Some(grp.text), entries)
             ELSE LET res == ContentEntry(grp, opt_type, opt_name, entries)
                  IN  IF res.err # "Ok" THEN res
                      ELSE OldFormatEntries_KeepsFirstName(Tail(groups), opt_type,
                                                           opt_name, res.entries)

\* the second pass: the entries, or the first error
RECURSIVE OldFormatEntries(_, _, _, _)
OldFormatEntries(groups, opt_type, opt_name, entries) ==
    IF groups = <<>> THEN [err |-> "Ok", entries |-> entries]
    ELSE LET grp == Head(groups)
         IN  IF grp.kind = "H1"
             THEN LET entry_type == OldFormatEntryType_from_str(
                                        Trim(strip_autonumbered_sections(grp.text)))
                  IN  IF ~entry_type.some THEN EntriesErr("InvalidEntryType")
                      ELSE OldFormatEntries(Tail(groups), entry_type, opt_name,
                                            entries)
             ELSE IF grp.kind = "H2"
             THEN OldFormatEntries(Tail(groups), opt_type, Some(grp.text), entries)
             ELSE LET res == ContentEntry(grp, opt_type, opt_name, entries)
                  IN  IF res.err # "Ok" THEN res
                      ELSE OldFormatEntries(Tail(groups), opt_type, opt_name,
                                            res.entries)
\* the while loop of the segmenter from cursor cur on: the groups, or a panic
RECURSIVE GroupedEvents(_, _, _)
GroupedEvents(evs, cur, groups) ==
    IF cur >= Len(evs) THEN [panic |-> FALSE, groups |-> groups]
    ELSE LET it == SegmentIteration(evs, cur, groups)
         IN  IF it.panic THEN [panic |-> TRUE, groups |-> <<>>]
             ELSE GroupedEvents(evs, it.cur, it.groups)

EntriesPanic == EntriesErr("Panic")

\* the whole call: Ok(entries), Err(kind), or a panic of the segmenter
get_note_old_format_entries(evs) ==
    LET grouped_events == GroupedEvents(evs, 0, <<>>)
    IN  IF grouped_events.panic THEN EntriesPanic
        ELSE OldFormatEntries(RelevantGroups(grouped_events.groups, FALSE),
                              None, None, <<>>)

NoEntries == EntriesErr("NotRun")

-----------------------------------------------------------------------------
(* adhoc_fix_rendered_markdown_output_for_obsidian                         *)
(*                                                                         *)
(* similar::TextDiff is an external crate.  Its tokenizers are modelled as *)
(* they split the text; its change list is modelled as ANY shortest edit   *)
(* script between the two token sequences, walked one change per step.     *)

\* TextDiff::from_words: the runs of whitespace and of non-whitespace
RECURSIVE Words(_)
Words(s) ==
    IF s = <<>> THEN <<>>
    ELSE LET rest == Words(Tail(s))
         IN  IF rest # <<>> /\ IsWhitespace(Head(rest)[1]) = IsWhitespace(Head(s))
             THEN <<<<Head(s)>> \o Head(rest)>> \o Tail(rest)
             ELSE <<<<Head(s)>>>> \o rest

\* TextDiff::from_chars: one token per character
Chars(s) == [k \in 1..Len(s) |-> <<s[k]>>]

Min(x, y) == IF x <= y THEN x ELSE y

\* the length (deletions + insertions) of a shortest edit script from a[i..]
\* to b[j..]
RECURSIVE EditDistance(_, _, _, _)
EditDistance(a, b, i, j) ==
    IF i >= Len(a) THEN Len(b) - j
    ELSE IF j >= Len(b) THEN Len(a) - i
    ELSE IF a[i + 1] = b[j + 1] THEN EditDistance(a, b, i + 1, j + 1)
    ELSE 1 + Min(EditDistance(a, b, i + 1, j), EditDistance(a, b, i, j + 1))

Change(tag, value) == [tag |-> tag, value |-> value]

\* iter_all_changes: the changes a shortest edit script may yield next, with
\* i tokens of a and j tokens of b consumed
NextChanges(a, b, i, j) ==
    {Change("Equal", a[i + 1]) : x \in
        {x \in {0} : i < Len(a) /\ j < Len(b) /\ a[i + 1] = b[j + 1]}}
    \cup
    {Change("Delete", a[i + 1]) : x \in
        {x \in {0} : i < Len(a)
            /\ 1 + EditDistance(a, b, i + 1, j) = EditDistance(a, b, i, j)}}
    \cup
    {Change("Insert", b[j + 1]) : x \in
        {x \in {0} : j < Len(b)
            /\ 1 + EditDistance(a, b, i, j + 1) = EditDistance(a, b, i, j)}}

\* how far a change moves the cursors of the old and of the new side
OldAdvance(change) == IF change.tag \in {"Equal", "Delete"} THEN 1 ELSE 0

NewAdvance(change) == IF change.tag \in {"Equal", "Insert"} THEN 1 ELSE 0

S_Backslash == <<"\\">>

S_Underscore == <<"_">>

S_Rule == <<"-", "-", "-">>

S_NewlineRule == <<"\n", "-", "-", "-">>

S_Hashes == <<"#", "#">>

S_DashBackslash == <<"-", " ", "\\">>

S_BackslashBar == <<"\\", "|">>

S_Newline == <<"\n">>

S_Star == <<"*">>

S_Quote == <<">">>

S_Dash == <<"-">>

S_DashSpace == <<"-", " ">>

\* pass 1, ChangeTag::Delete: what is appended to mut_out
PassOneDelete(s) ==
    IF Trim(s) = S_Backslash \/ Trim(s) = S_Underscore THEN s
    ELSE IF Trim(s) = S_Rule THEN S_NewlineRule
    ELSE <<>>

\* mutant of PassOneInsert: an inserted whitespace run with a newline is kept
\* as it is
PassOneInsert_KeepsBlankRun(s) ==
    IF /\ Trim(s) # S_Backslash
       /\ Trim(s) # <<>>
       /\ Trim(s) # S_Hashes
       /\ Trim(s) # S_DashBackslash
       /\ Trim(s) # S_BackslashBar
    THEN s
    ELSE IF Trim(s) = S_DashBackslash \/ Trim(s) = S_BackslashBar
    THEN Remove(s, S_Backslash)
    ELSE IF Trim(s) = <<>> /\ Contains(s, S_Newline) THEN s
    ELSE <<>>

\* pass 1, ChangeTag::Insert: what is appended to mut_out
PassOneInsert(s) ==
    IF /\ Trim(s) # S_Backslash
       /\ Trim(s) # <<>>
       /\ Trim(s) # S_Hashes
       /\ Trim(s) # S_DashBackslash
       /\ Trim(s) # S_BackslashBar
    THEN s
    ELSE IF Trim(s) = S_DashBackslash \/ Trim(s) = S_BackslashBar
    THEN Remove(s, S_Backslash)
    ELSE IF Trim(s) = <<>> /\ Contains(s, S_Newline) THEN S_Newline
    ELSE <<>>

PassOne(change) ==
    IF change.tag = "Equal" THEN change.value
    ELSE IF change.tag = "Delete" THEN PassOneDelete(change.value)
    ELSE PassOneInsert(change.value)

\* pass 2, ChangeTag::Delete
PassTwoDelete(s) ==
    IF Trim(s) = S_Backslash \/ Trim(s) = S_Underscore THEN s ELSE <<>>

\* pass 2, ChangeTag::Insert
PassTwoInsert(s) ==
    IF /\ Trim(s) # S_Backslash
       /\ Trim(s) # <<>>
       /\ Trim(s) # S_Star
       /\ Trim(s) # S_Quote
       /\ Trim(s) # S_Dash
    THEN s
    ELSE IF Trim(s) = S_Dash THEN S_DashSpace
    ELSE <<>>
\* mutant of PassTwo: an equal chunk is treated like an inserted one
PassTwo_EqualAsInsert(change) ==
    IF change.tag = "Delete" THEN PassTwoDelete(change.value)
    ELSE PassTwoInsert(change.value)

PassTwo(change) ==
    IF change.tag = "Equal" THEN change.value
    ELSE IF change.tag = "Delete" THEN PassTwoDelete(change.value)
    ELSE PassTwoInsert(change.value)

\* mutant of PassTwoCandidate: pass 2 diffs against the renderer's output
PassTwoCandidate_Rendered == new_content

\* the candidate text of pass 2: TextDiff::from_chars(old_content, &new_content1)
PassTwoCandidate == new_content1

-----------------------------------------------------------------------------
(* Specification of the wiki-link parser: a token is drawn and parsed, then *)
(* the links of a Text event holding the token are extracted               *)

LinkChars == {"a", "b", "#", "|"}

\* the tokens handed to from_str: bracketed inner texts, and tokens that lack
\* one of the brackets
LinkTokens ==
    {LB \o inner \o RB : inner \in SeqsUpTo(LinkChars, MaxInner)}
        \cup {LB \o <<"a">>, <<"a">> \o RB, <<"a", "|", "b", "|", "a">>, <<>>,
              LB \o <<"é">> \o RB}

\* what follows the token in its Text event
LinkSuffixes ==
    { <<>>,
      <<" ", "x">>,
      <<"]">>,
      <<" ">> \o LB \o <<"b">> \o RB,
      <<" ">> \o LB \o <<"#", "#">> \o RB,
      <<" ">> \o LB \o <<"|", "|">> \o RB }

NoLink == LinkErr("NotParsed", <<>>)

InitLink ==
    /\ context_type_id = 0 /\ is_doer = "NotRun"
    /\ path = <<>> /\ fs = <<>> /\ fs_before = <<>> /\ out = "NotRun"
    /\ pc = "link_start"
    /\ token \in LinkTokens
    /\ link = NoLink
    /\ \E sfx \in LinkSuffixes : events = <<ParagraphStart, Text(token \o sfx)>>
    /\ linkables = <<>> /\ links = NoLinks /\ spawn_metadata = <<>>
    /\ mut_cur = 0 /\ mut_grouped_events = <<>> /\ old_format_entries = NoEntries
    /\ prop = <<>> /\ props = None /\ note_property = None
    /\ old_content = <<>> /\ new_content = <<>> /\ cur_old = 0 /\ cur_new = 0
    /\ changes1 = <<>> /\ new_content1 = <<>> /\ changes2 = <<>> /\ out2 = <<>>
    /\ heading_text = <<>> /\ stripped = <<>>
    /\ command = "none" /\ vault = <<>> /\ cur_item = 0 /\ outputs = <<>>

ParseLink ==
    /\ pc = "link_start"
    /\ link' = ObsidianLink_from_str(token)
    /\ pc' = "link_done"
    /\ UNCHANGED <<doerVars, turnVars, stripVars, vaultVars, token, events, linkables, links, spawn_metadata, legacyVars,
                   fmVars, patchVars>>

ExtractLinksOfToken ==
    /\ pc = "link_done"
    /\ links' = extract_obsidian_md_links(events)
    /\ pc' = "links_done"
    /\ UNCHANGED <<doerVars, turnVars, stripVars, vaultVars, token, link, events, linkables, spawn_metadata, legacyVars,
                   fmVars, patchVars>>

NextLink == ParseLink \/ ExtractLinksOfToken

SpecLink == InitLink /\ [][NextLink]_vars

-----------------------------------------------------------------------------
(* Specification of the document extractors: linkables, links, spawn relations *)

\* "Spawn [[T]] ^spawn-a"
T_SpawnOne ==
    <<"S", "p", "a", "w", "n", " ", "[", "[", "T", "]", "]", " ", "^", "s", "p", "a", "w", "n", "-", "a">>

\* " Spawn [[T]] ^spawn-a"
T_SpawnOneLead ==
    <<" ", "S", "p", "a", "w", "n", " ", "[", "[", "T", "]", "]", " ", "^", "s", "p", "a", "w", "n", "-", "a">>

\* "Spawn [[T]]"
T_SpawnNoId ==
    <<"S", "p", "a", "w", "n", " ", "[", "[", "T", "]", "]">>

\* "Spawn [[T]] [[U]] ^spawn-a"
T_SpawnTwo ==
    <<"S", "p", "a", "w", "n", " ", "[", "[", "T", "]", "]", " ", "[", "[", "U", "]", "]", " ", "^", "s", "p", "a", "w", "n", "-", "a">>

\* "See [[T]] ^spawn-a"
T_NoSpawnWord ==
    <<"S", "e", "e", " ", "[", "[", "T", "]", "]", " ", "^", "s", "p", "a", "w", "n", "-", "a">>

\* "Spawn [[T]] ^a"
T_SpawnOtherId ==
    <<"S", "p", "a", "w", "n", " ", "[", "[", "T", "]", "]", " ", "^", "a">>

\* "From [[#^spawn-a]] in [[U]]"
T_FromIn ==
    <<"F", "r", "o", "m", " ", "[", "[", "#", "^", "s", "p", "a", "w", "n", "-", "a", "]", "]", " ", "i", "n", " ", "[", "[", "U", "]", "]">>

\* "From [[#^spawn-a]] [[U]]"
T_FromNoIn ==
    <<"F", "r", "o", "m", " ", "[", "[", "#", "^", "s", "p", "a", "w", "n", "-", "a", "]", "]", " ", "[", "[", "U", "]", "]">>

\* "From [[T]] in [[U]]"
T_FromPlain ==
    <<"F", "r", "o", "m", " ", "[", "[", "T", "]", "]", " ", "i", "n", " ", "[", "[", "U", "]", "]">>

\* "From [[#spawn!]] in [[U]]"
T_FromBadId ==
    <<"F", "r", "o", "m", " ", "[", "[", "#", "s", "p", "a", "w", "n", "!", "]", "]", " ", "i", "n", " ", "[", "[", "U", "]", "]">>

\* "[[a|b|a]]"
T_BadLink ==
    <<"[", "[", "a", "|", "b", "|", "a", "]", "]">>

\* "T"
T_Plain ==
    <<"T">>

DocTexts ==
    {T_SpawnOne, T_SpawnOneLead, T_SpawnNoId, T_SpawnTwo, T_NoSpawnWord,
     T_SpawnOtherId, T_FromIn, T_FromNoIn, T_FromPlain, T_FromBadId, T_BadLink,
     T_Plain}

DocEvents ==
    {Text(t) : t \in DocTexts} \cup {HeadingStart(1), HeadingEnd(1), HeadingEnd(2)}

\* the characters of the short texts drawn to exercise the block-identifier scan
IdChars == {"^", "a", "-", "!", " "}

\* documents around a heading: a start of some level, a Text or another
\* event, an end of some level, with or without an event before
HeadingDocs ==
    {pre \o <<HeadingStart(a), e, HeadingEnd(b)>> :
        a \in 1..3, b \in 1..3, e \in {Text(T_Plain), SoftBreak},
        pre \in {<<>>, <<Text(T_Plain)>>}}

\* the documents: sequences of document events, single Text events with
\* every short text over IdChars, and the heading documents
Docs ==
    SeqsUpTo(DocEvents, MaxDocEvents)
        \cup {<<Text(t)>> : t \in SeqsUpTo(IdChars, MaxIdLen)}
        \cup HeadingDocs

InitDoc ==
    /\ context_type_id = 0 /\ is_doer = "NotRun"
    /\ path = <<>> /\ fs = <<>> /\ fs_before = <<>> /\ out = "NotRun"
    /\ pc = "doc_start"
    /\ events \in Docs
    /\ linkables = <<>> /\ links = NoLinks /\ spawn_metadata = <<>>
    /\ mut_cur = 0 /\ mut_grouped_events = <<>> /\ old_format_entries = NoEntries
    /\ token = <<>> /\ link = NoLink
    /\ prop = <<>> /\ props = None /\ note_property = None
    /\ old_content = <<>> /\ new_content = <<>> /\ cur_old = 0 /\ cur_new = 0
    /\ changes1 = <<>> /\ new_content1 = <<>> /\ changes2 = <<>> /\ out2 = <<>>
    /\ heading_text = <<>> /\ stripped = <<>>
    /\ command = "none" /\ vault = <<>> /\ cur_item = 0 /\ outputs = <<>>

ExtractLinkables ==
    /\ pc = "doc_start"
    /\ linkables' = extract_linkable_obsidian_md_items(events)
    /\ pc' = "doc_linkables"
    /\ UNCHANGED <<doerVars, turnVars, stripVars, vaultVars, linkVars, events, links, spawn_metadata, legacyVars,
                   fmVars, patchVars>>

ExtractLinks ==
    /\ pc = "doc_linkables"
    /\ links' = extract_obsidian_md_links(events)
    /\ pc' = "doc_links"
    /\ UNCHANGED <<doerVars, turnVars, stripVars, vaultVars, linkVars, events, linkables, spawn_metadata, legacyVars,
                   fmVars, patchVars>>

\* .expect("Could not process links") on a link-syntax error
LinksExpectPanics ==
    /\ pc = "doc_links"
    /\ links.err # "Ok"
    /\ pc' = "doc_panic"
    /\ UNCHANGED <<doerVars, turnVars, stripVars, vaultVars, linkVars, docVars, fmVars, patchVars>>

ExtractSpawn ==
    /\ pc = "doc_links"
    /\ links.err = "Ok"
    /\ spawn_metadata' = extract_spawn_metadata_from_old_format(linkables, links.items)
    /\ pc' = "doc_spawn"
    /\ UNCHANGED <<doerVars, turnVars, stripVars, vaultVars, linkVars, events, linkables, links, legacyVars, fmVars,
                   patchVars>>

NextDoc == ExtractLinkables \/ ExtractLinks \/ LinksExpectPanics \/ ExtractSpawn

SpecDoc == InitDoc /\ [][NextDoc]_vars

-----------------------------------------------------------------------------
(* Specification of the frontmatter extractor *)

\* "k:[[a]]"
F_Link ==
    <<"k", ":", "[", "[", "a", "]", "]">>

\* "k: [[b]] "
F_LinkPadded ==
    <<"k", ":", " ", "[", "[", "b", "]", "]", " ">>

\* "p:[[a]]"
F_OtherKey ==
    <<"p", ":", "[", "[", "a", "]", "]">>

\* "k:a"
F_NoLink ==
    <<"k", ":", "a">>

\* "k:[[a]] [[b]]"
F_TwoLinks ==
    <<"k", ":", "[", "[", "a", "]", "]", " ", "[", "[", "b", "]", "]">>

\* "k"
F_NoColon ==
    <<"k">>

\* "k:a:b"
F_TwoColons ==
    <<"k", ":", "a", ":", "b">>

FmTexts ==
    {F_Link, F_LinkPadded, F_OtherKey, F_NoLink, F_TwoLinks, F_NoColon, F_TwoColons}

FmKeys == {<<"k">>, <<"p">>, <<"x">>}

\* what a document may open with, lie between its heading tags, and end with
FmHeadEvents == {Rule, HeadingStart(2), HeadingStart(1), ParagraphStart}

FmBodyEvents == {Text(t) : t \in FmTexts} \cup {SoftBreak, ParagraphStart}

FmTails ==
    {<<>>, <<HeadingEnd(2)>>, <<HeadingEnd(1)>>, <<HeadingEnd(2), ParagraphStart>>}

FmDocs ==
    {head \o body \o tail :
        head \in SeqsUpTo(FmHeadEvents, 2),
        body \in SeqsUpTo(FmBodyEvents, MaxFmBody),
        tail \in FmTails}

InitFm ==
    /\ context_type_id = 0 /\ is_doer = "NotRun"
    /\ path = <<>> /\ fs = <<>> /\ fs_before = <<>> /\ out = "NotRun"
    /\ pc = "fm_start"
    /\ events \in FmDocs
    /\ prop = <<>> /\ props = None /\ note_property = None
    /\ linkables = <<>> /\ links = NoLinks /\ spawn_metadata = <<>>
    /\ mut_cur = 0 /\ mut_grouped_events = <<>> /\ old_format_entries = NoEntries
    /\ token = <<>> /\ link = NoLink
    /\ old_content = <<>> /\ new_content = <<>> /\ cur_old = 0 /\ cur_new = 0
    /\ changes1 = <<>> /\ new_content1 = <<>> /\ changes2 = <<>> /\ out2 = <<>>
    /\ heading_text = <<>> /\ stripped = <<>>
    /\ command = "none" /\ vault = <<>> /\ cur_item = 0 /\ outputs = <<>>

ParseFrontmatter ==
    /\ pc = "fm_start"
    /\ props' = parse_markdown_file_frontmatter_section(events)
    /\ pc' = "fm_parsed"
    /\ UNCHANGED <<doerVars, turnVars, stripVars, vaultVars, linkVars, docVars, prop, note_property, patchVars>>

GetNoteProperty ==
    /\ pc = "fm_parsed"
    /\ \E key \in FmKeys :
        /\ prop' = key
        /\ note_property' = get_file_frontmatter_note_property(events, key)
    /\ pc' = "fm_looked_up"
    /\ UNCHANGED <<doerVars, turnVars, stripVars, vaultVars, linkVars, docVars, props, patchVars>>

NextFm == ParseFrontmatter \/ GetNoteProperty

SpecFm == InitFm /\ [][NextFm]_vars

-----------------------------------------------------------------------------
(* Specification of the legacy-record grouper: the segmenter runs one loop  *)
(* iteration per step, then the two passes over the groups produce entries *)

\* "1 Tasks"
H_NumberedTasks ==
    <<"1", " ", "T", "a", "s", "k", "s">>

\* "Other"
H_Other ==
    <<"O", "t", "h", "e", "r">>

Heading(level, text) == <<HeadingStart(level), Text(text), HeadingEnd(level)>>

\* the building blocks of most drawn documents: well-formed H1 / H2 / H3
\* headings, a content event, an H2 section with content
CommonLegacyBlocks ==
    { Heading(1, H_Tasks), Heading(1, H_NumberedTasks), Heading(1, H_Issues),
      Heading(1, H_Other),
      Heading(2, <<"a">>),
      Heading(3, <<"c">>),
      Heading(2, <<"b">>) \o <<SoftBreak>>,
      <<Text(<<"x">>)>> }

\* the building blocks of the shorter documents: the common ones, one more
\* H2 heading and content event, and malformed headings
LegacyBlocks ==
    CommonLegacyBlocks
        \cup { Heading(2, <<"b">>),
               <<ParagraphStart>>,
               <<HeadingStart(1), ParagraphStart>>,
               <<HeadingStart(2), Text(<<"a">>), HeadingEnd(1)>> }

RECURSIVE Flatten(_)
Flatten(blocks) ==
    IF blocks = <<>> THEN <<>> ELSE Head(blocks) \o Flatten(Tail(blocks))

LegacyDocs ==
    {Flatten(blocks) : blocks \in SeqsUpTo(CommonLegacyBlocks, MaxBlocks)}
        \cup {Flatten(blocks) : blocks \in SeqsUpTo(LegacyBlocks, MaxBlocks - 1)}

InitLegacy ==
    /\ context_type_id = 0 /\ is_doer = "NotRun"
    /\ path = <<>> /\ fs = <<>> /\ fs_before = <<>> /\ out = "NotRun"
    /\ pc = "segmenting"
    /\ events \in LegacyDocs
    /\ mut_cur = 0 /\ mut_grouped_events = <<>> /\ old_format_entries = NoEntries
    /\ linkables = <<>> /\ links = NoLinks /\ spawn_metadata = <<>>
    /\ token = <<>> /\ link = NoLink
    /\ prop = <<>> /\ props = None /\ note_property = None
    /\ old_content = <<>> /\ new_content = <<>> /\ cur_old = 0 /\ cur_new = 0
    /\ changes1 = <<>> /\ new_content1 = <<>> /\ changes2 = <<>> /\ out2 = <<>>
    /\ heading_text = <<>> /\ stripped = <<>>
    /\ command = "none" /\ vault = <<>> /\ cur_item = 0 /\ outputs = <<>>

\* one iteration of `while mut_cur < events.len()`
SegmentStep ==
    /\ pc = "segmenting"
    /\ mut_cur < Len(events)
    /\ LET it == SegmentIteration(events, mut_cur, mut_grouped_events)
       IN  /\ ~it.panic
           /\ mut_cur' = it.cur
           /\ mut_grouped_events' = it.groups
    /\ UNCHANGED <<doerVars, turnVars, stripVars, vaultVars, pc, linkVars, events, linkables, links, spawn_metadata,
                   old_format_entries, fmVars, patchVars>>

\* panic!("Remove those!"): an empty content run
SegmentPanic ==
    /\ pc = "segmenting"
    /\ mut_cur < Len(events)
    /\ SegmentIteration(events, mut_cur, mut_grouped_events).panic
    /\ pc' = "panicked"
    /\ UNCHANGED <<doerVars, turnVars, stripVars, vaultVars, linkVars, docVars, fmVars, patchVars>>

\* the loop has ended: the relevance filter and the pairing pass
GroupEntries ==
    /\ pc = "segmenting"
    /\ mut_cur >= Len(events)
    /\ old_format_entries' =
            OldFormatEntries(RelevantGroups(mut_grouped_events, FALSE), None, None, <<>>)
    /\ pc' = "returned"
    /\ UNCHANGED <<doerVars, turnVars, stripVars, vaultVars, linkVars, events, linkables, links, spawn_metadata, mut_cur,
                   mut_grouped_events, fmVars, patchVars>>

NextLegacy == SegmentStep \/ SegmentPanic \/ GroupEntries

SpecLegacy == InitLegacy /\ [][NextLegacy]_vars

-----------------------------------------------------------------------------
(* Specification of the auto-number stripper: a heading text is drawn and  *)
(* strip_autonumbered_sections is applied to it                            *)

StripChars == {"1", "2", ".", " ", "a"}

\* "2024"
H_Year == <<"2", "0", "2", "4">>

\* "2.1.3 Some Title"
H_NumberedTitle ==
    <<"2", ".", "1", ".", "3", " ", "S", "o", "m", "e", " ", "T", "i", "t", "l", "e">>

\* "1 Tasks 1"
H_TasksTwice == <<"1", " ", "T", "a", "s", "k", "s", " ", "1">>

StripTexts ==
    SeqsUpTo(StripChars, MaxHeadingLen)
        \cup {H_Year, H_NumberedTitle, H_TasksTwice, H_NumberedTasks, H_Tasks}

InitStrip ==
    /\ context_type_id = 0 /\ is_doer = "NotRun"
    /\ path = <<>> /\ fs = <<>> /\ fs_before = <<>> /\ out = "NotRun"
    /\ pc = "strip_start"
    /\ heading_text \in StripTexts
    /\ stripped = <<>>
    /\ events = <<>> /\ linkables = <<>> /\ links = NoLinks /\ spawn_metadata = <<>>
    /\ mut_cur = 0 /\ mut_grouped_events = <<>> /\ old_format_entries = NoEntries
    /\ token = <<>> /\ link = NoLink
    /\ prop = <<>> /\ props = None /\ note_property = None
    /\ old_content = <<>> /\ new_content = <<>> /\ cur_old = 0 /\ cur_new = 0
    /\ changes1 = <<>> /\ new_content1 = <<>> /\ changes2 = <<>> /\ out2 = <<>>
    /\ command = "none" /\ vault = <<>> /\ cur_item = 0 /\ outputs = <<>>

StripHeading ==
    /\ pc = "strip_start"
    /\ stripped' = strip_autonumbered_sections(heading_text)
    /\ pc' = "strip_done"
    /\ UNCHANGED <<doerVars, turnVars, heading_text, vaultVars, linkVars, docVars, fmVars, patchVars>>

NextStrip == StripHeading

SpecStrip == InitStrip /\ [][NextStrip]_vars

-----------------------------------------------------------------------------
(* Specification of the patch reconciler: both texts are drawn, then each  *)
(* pass walks its change list one change per step                          *)

PatchWords ==
    {S_Backslash, S_Underscore, S_Rule, S_Hashes, S_BackslashBar, S_Star,
     S_Quote, S_Dash, <<"a">>}

PatchBlanks == {<<" ">>, <<" ", "\n">>}

\* the texts of at most n tokens: words and blank runs in alternation
RECURSIVE PatchTexts(_)
PatchTexts(n) ==
    IF n = 0 THEN {<<>>}
    ELSE LET shorter == PatchTexts(n - 1)
         IN  shorter
                \cup {w \o s : w \in PatchWords,
                               s \in {x \in shorter : x = <<>> \/ IsWhitespace(x[1])}}
                \cup {b \o s : b \in PatchBlanks,
                               s \in {x \in shorter : x = <<>> \/ ~IsWhitespace(x[1])}}

InitPatch ==
    /\ context_type_id = 0 /\ is_doer = "NotRun"
    /\ path = <<>> /\ fs = <<>> /\ fs_before = <<>> /\ out = "NotRun"
    /\ pc = "pass1"
    /\ \/ \E n \in 0..MaxWords :
            /\ old_content \in PatchTexts(n)
            /\ new_content \in PatchTexts(MaxWords - n)
       \/ /\ old_content \in PatchTexts(MaxWords)
          /\ new_content = old_content
    /\ cur_old = 0 /\ cur_new = 0
    /\ changes1 = <<>> /\ new_content1 = <<>> /\ changes2 = <<>> /\ out2 = <<>>
    /\ events = <<>> /\ linkables = <<>> /\ links = NoLinks /\ spawn_metadata = <<>>
    /\ mut_cur = 0 /\ mut_grouped_events = <<>> /\ old_format_entries = NoEntries
    /\ token = <<>> /\ link = NoLink
    /\ prop = <<>> /\ props = None /\ note_property = None
    /\ heading_text = <<>> /\ stripped = <<>>
    /\ command = "none" /\ vault = <<>> /\ cur_item = 0 /\ outputs = <<>>

\* one iteration of the loop over the word-level changes
PassOneStep ==
    /\ pc = "pass1"
    /\ \E change \in NextChanges(Words(old_content), Words(new_content),
                                 cur_old, cur_new) :
        /\ new_content1' = new_content1 \o PassOne(change)
        /\ changes1' = Append(changes1, change)
        /\ cur_old' = cur_old + OldAdvance(change)
        /\ cur_new' = cur_new + NewAdvance(change)
    /\ UNCHANGED <<doerVars, turnVars, stripVars, vaultVars, pc, linkVars, docVars, fmVars, old_content, new_content,
                   changes2, out2>>

\* the word-level changes are exhausted: the character diff is taken
PassOneEnd ==
    /\ pc = "pass1"
    /\ cur_old = Len(Words(old_content))
    /\ cur_new = Len(Words(new_content))
    /\ pc' = "pass2"
    /\ cur_old' = 0
    /\ cur_new' = 0
    /\ UNCHANGED <<doerVars, turnVars, stripVars, vaultVars, linkVars, docVars, fmVars, old_content, new_content, changes1,
                   new_content1, changes2, out2>>

\* one iteration of the loop over the character-level changes
PassTwoStep ==
    /\ pc = "pass2"
    /\ \E change \in NextChanges(Chars(old_content), Chars(PassTwoCandidate),
                                 cur_old, cur_new) :
        /\ out2' = out2 \o PassTwo(change)
        /\ changes2' = Append(changes2, change)
        /\ cur_old' = cur_old + OldAdvance(change)
        /\ cur_new' = cur_new + NewAdvance(change)
    /\ UNCHANGED <<doerVars, turnVars, stripVars, vaultVars, pc, linkVars, docVars, fmVars, old_content, new_content,
                   changes1, new_content1>>

\* the character-level changes are exhausted: mut_out is returned
PassTwoEnd ==
    /\ pc = "pass2"
    /\ cur_old = Len(old_content)
    /\ cur_new = Len(PassTwoCandidate)
    /\ pc' = "patched"
    /\ UNCHANGED <<doerVars, turnVars, stripVars, vaultVars, linkVars, docVars, fmVars, patchVars>>

NextPatch == PassOneStep \/ PassOneEnd \/ PassTwoStep \/ PassTwoEnd

SpecPatch == InitPatch /\ [][NextPatch]_vars

-----------------------------------------------------------------------------
(* The vault drivers and the per-file closures of the two subcommands.     *)
(* The renderer is an external crate: whether it returns Ok for a file is  *)
(* drawn with the file.                                                    *)

VaultFile(kind, evs, renders) == [kind |-> kind, events |-> evs, renders |-> renders]

\* the files a driver hands to the closure, in order:
\* process_markdown_files_in_vault walks every file,
\* process_non_peripheral_markdown_files_in_vault leaves the peripheral ones out
WalkedFiles(cmd, files) ==
    IF cmd = "writeback" THEN files
    ELSE SelectSeq(files, LAMBDA f : f.kind # "Peripheral")

\* what the closure did for one file: it returned Some(()) after writing the
\* content, returned None, or panicked
Returned(outcome, content, turned) ==
    [outcome |-> outcome, content |-> content, turned |-> turned]

\* the closure of app_writeback
writeback_process_markdown_file(f) ==
    IF ~f.renders THEN Returned("Panic", <<>>, FALSE)
    ELSE Returned("Some", f.events, FALSE)

RECURSIVE AllOldFormatEvents(_)
AllOldFormatEvents(entries) ==
    IF entries = <<>> THEN <<>>
    ELSE Head(entries).events \o AllOldFormatEvents(Tail(entries))

\* events.filter(|event| !all_old_format_events.contains(event))
EventsExcludingOldFormatRecords(evs, entries) ==
    LET all_old_format_events == AllOldFormatEvents(entries)
    IN  SelectSeq(evs, LAMBDA event :
            \A k \in 1..Len(all_old_format_events) : all_old_format_events[k] # event)

\* the closure of app_extract_old_format_records
extract_process_markdown_file(f) ==
    LET old_format_records == get_note_old_format_entries(f.events)
        lns == extract_obsidian_md_links(f.events)
    IN  IF old_format_records.err = "Panic" THEN Returned("Panic", <<>>, FALSE)
        ELSE IF old_format_records.err # "Ok" THEN Returned("None", <<>>, FALSE)
        ELSE IF old_format_records.entries = <<>> THEN Returned("None", <<>>, FALSE)
        ELSE IF lns.err # "Ok" THEN Returned("Panic", <<>>, FALSE)
        ELSE IF ~f.renders THEN Returned("Panic", <<>>, FALSE)
        ELSE Returned("Some",
                      EventsExcludingOldFormatRecords(f.events,
                                                      old_format_records.entries),
                      f.kind # "Core")

-----------------------------------------------------------------------------
(* Specification of a run over a vault: the files are drawn, then the      *)
(* driver loop hands one file per step to the closure of the subcommand    *)

\* a legacy section with one entry
D_Legacy == Heading(1, H_Tasks) \o Heading(2, <<"a">>) \o <<Text(<<"x">>)>>

\* no legacy section
D_Plain == <<Text(<<"x">>)>>

\* a legacy entry whose text holds a link with two bars
D_BadLink == Heading(1, H_Tasks) \o Heading(2, <<"a">>) \o <<Text(T_BadLink)>>

\* a legacy section followed by an H2 start with no text
D_Malformed == Heading(1, H_Tasks) \o <<HeadingStart(2), ParagraphStart>>

\* content directly under a legacy H1, with no H2
D_Unconfigured == Heading(1, H_Tasks) \o <<Text(<<"x">>)>>

\* a paragraph, then a legacy section whose entry is a paragraph
D_Paragraphs ==
    <<ParagraphStart, Text(<<"y">>), ParagraphEnd>>
        \o Heading(1, H_Tasks) \o Heading(2, <<"a">>)
        \o <<ParagraphStart, Text(<<"x">>), ParagraphEnd>>

VaultFiles ==
    {VaultFile(kind, evs, renders) :
        kind \in {"Note", "Core", "Peripheral"},
        evs \in {D_Legacy, D_Plain, D_BadLink, D_Malformed, D_Unconfigured,
                 D_Paragraphs},
        renders \in BOOLEAN}

InitVault ==
    /\ context_type_id = 0 /\ is_doer = "NotRun"
    /\ path = <<>> /\ fs = <<>> /\ fs_before = <<>> /\ out = "NotRun"
    /\ pc = "vault_running"
    /\ command \in {"writeback", "extract_old_format_records"}
    /\ vault \in SeqsUpTo(VaultFiles, MaxFiles)
    /\ cur_item = 0
    /\ outputs = <<>>
    /\ events = <<>> /\ linkables = <<>> /\ links = NoLinks /\ spawn_metadata = <<>>
    /\ mut_cur = 0 /\ mut_grouped_events = <<>> /\ old_format_entries = NoEntries
    /\ token = <<>> /\ link = NoLink
    /\ prop = <<>> /\ props = None /\ note_property = None
    /\ old_content = <<>> /\ new_content = <<>> /\ cur_old = 0 /\ cur_new = 0
    /\ changes1 = <<>> /\ new_content1 = <<>> /\ changes2 = <<>> /\ out2 = <<>>
    /\ heading_text = <<>> /\ stripped = <<>>

\* app_writeback: the closure returns for the next file
WritebackFile ==
    /\ pc = "vault_running"
    /\ command = "writeback"
    /\ cur_item < Len(WalkedFiles(command, vault))
    /\ LET res == writeback_process_markdown_file(
                        WalkedFiles(command, vault)[cur_item + 1])
       IN  /\ res.outcome # "Panic"
           /\ outputs' = Append(outputs, res)
    /\ cur_item' = cur_item + 1
    /\ UNCHANGED <<doerVars, turnVars, pc, command, vault, stripVars, linkVars, docVars, fmVars, patchVars>>

\* app_writeback: an .expect(..) in the closure panics and the process ends
WritebackFilePanics ==
    /\ pc = "vault_running"
    /\ command = "writeback"
    /\ cur_item < Len(WalkedFiles(command, vault))
    /\ writeback_process_markdown_file(
            WalkedFiles(command, vault)[cur_item + 1]).outcome = "Panic"
    /\ pc' = "vault_panicked"
    /\ UNCHANGED <<doerVars, turnVars, vaultVars, stripVars, linkVars, docVars, fmVars, patchVars>>

\* app_extract_old_format_records: the closure returns for the next file
ExtractFile ==
    /\ pc = "vault_running"
    /\ command = "extract_old_format_records"
    /\ cur_item < Len(WalkedFiles(command, vault))
    /\ LET res == extract_process_markdown_file(
                        WalkedFiles(command, vault)[cur_item + 1])
       IN  /\ res.outcome # "Panic"
           /\ outputs' = Append(outputs, res)
    /\ cur_item' = cur_item + 1
    /\ UNCHANGED <<doerVars, turnVars, pc, command, vault, stripVars, linkVars, docVars, fmVars, patchVars>>

\* app_extract_old_format_records: the segmenter or an .expect(..) in the
\* closure panics and the process ends
ExtractFilePanics ==
    /\ pc = "vault_running"
    /\ command = "extract_old_format_records"
    /\ cur_item < Len(WalkedFiles(command, vault))
    /\ extract_process_markdown_file(
            WalkedFiles(command, vault)[cur_item + 1]).outcome = "Panic"
    /\ pc' = "vault_panicked"
    /\ UNCHANGED <<doerVars, turnVars, vaultVars, stripVars, linkVars, docVars, fmVars, patchVars>>

\* the driver loop has gone through every file
VaultDone ==
    /\ pc = "vault_running"
    /\ cur_item = Len(WalkedFiles(command, vault))
    /\ pc' = "vault_done"
    /\ UNCHANGED <<doerVars, turnVars, vaultVars, stripVars, linkVars, docVars, fmVars, patchVars>>

NextVault ==
    WritebackFile \/ WritebackFilePanics \/ ExtractFile \/ ExtractFilePanics \/ VaultDone

SpecVault == InitVault /\ [][NextVault]_vars

-----------------------------------------------------------------------------
(* Claims about the wiki-link parser (SpecLink) *)

Wrapped(tok) == Len(tok) >= 4 /\ StartsWith(tok, LB) /\ EndsWith(tok, RB)

Inner(tok) == SubSeq(tok, 3, Len(tok) - 2)

\* a string free of #, | and brackets, and not empty
Plain(s) == s # <<>> /\ \A i \in 1..Len(s) : s[i] \notin {"#", "|", "[", "]"}

Parsed(tok, file, sublink, title) ==
    [err |-> "Ok", text |-> tok, opt_file_link |-> file, opt_sublink |-> sublink,
     opt_title |-> title]

\* every token handed to from_str by extract_obsidian_md_links, in event order
RECURSIVE AllTokens(_)
AllTokens(evs) ==
    IF evs = <<>> THEN <<>>
    ELSE (IF Head(evs).kind = "Text" THEN LinkTokensOf(Head(evs).text) ELSE <<>>)
            \o AllTokens(Tail(evs))

\* the error kind the (amended) claim C4 assigns to a token
RejectKind(tok) ==
    IF ~Wrapped(tok) THEN "NoBracketsFound"
    ELSE IF CountChar(Inner(tok), "#") > 1 THEN "MustHaveZeroOrOneHash"
    ELSE IF CountChar(Inner(tok), "|") > 1 THEN "MustHaveZeroOrOneBar"
    ELSE "Ok"

\* C4 as stated: a wrapped token with more than one | fails with
\* MustHaveZeroOrOneBar, with more than one # fails with MustHaveZeroOrOneHash,
\* an unwrapped token fails with NoBracketsFound; no link is produced, and
\* extract_obsidian_md_links on the text holding the token returns that kind.
C4_AsStated ==
    /\ pc \in {"link_done", "links_done"} =>
        /\ (Wrapped(token) /\ CountChar(Inner(token), "|") > 1)
                => link = LinkErr("MustHaveZeroOrOneBar", token)
        /\ (Wrapped(token) /\ CountChar(Inner(token), "#") > 1)
                => link = LinkErr("MustHaveZeroOrOneHash", token)
        /\ ~Wrapped(token) => link = LinkErr("NoBracketsFound", token)
    /\ pc = "links_done" =>
        /\ (Wrapped(token) /\ CountChar(Inner(token), "|") > 1)
                => links.err = "MustHaveZeroOrOneBar"
        /\ (Wrapped(token) /\ CountChar(Inner(token), "#") > 1)
                => links.err = "MustHaveZeroOrOneHash"
        /\ ~Wrapped(token) => links.err = "NoBracketsFound"

\* C4 amended: more than one # fails with MustHaveZeroOrOneHash; more than one |
\* and at most one # fails with MustHaveZeroOrOneBar; an unwrapped token fails
\* with NoBracketsFound; in each case no link is produced, and
\* extract_obsidian_md_links returns the error kind of the first token, in event
\* and text order, that from_str rejects, and a list only when there is none.
C4_LinkArityRejection ==
    /\ pc \in {"link_done", "links_done"} =>
        IF RejectKind(token) # "Ok"
        THEN link = LinkErr(RejectKind(token), token)
        ELSE link.err = "Ok"
    /\ pc = "links_done" =>
        LET toks == AllTokens(events)
            bad == {i \in 1..Len(toks) : RejectKind(toks[i]) # "Ok"}
        IN  IF bad # {}
            THEN /\ links.err = RejectKind(toks[CHOOSE i \in bad : \A j \in bad : i <= j])
                 /\ links.items = <<>>
            ELSE links.err = "Ok"

\* C4 witness: a token with two bars and two hashes was parsed and extracted,
\* and both report the hash error
C4_Witness ==
    /\ pc = "links_done"
    /\ Wrapped(token)
    /\ CountChar(Inner(token), "|") > 1
    /\ CountChar(Inner(token), "#") > 1
    /\ link.err = "MustHaveZeroOrOneHash"
    /\ links.err = "MustHaveZeroOrOneHash"

\* C5: for non-empty target t, sublink s and title u free of #, | and brackets,
\* [[t]], [[t#s]], [[t|u]] and [[t#s|u]] parse into file target t, sublink #s
\* (absent without #), title |u (absent without |), text = the raw token; a
\* token with no target, [[#s]], has an absent file target.
C5_WikiLinkGrammar ==
    (pc \in {"link_done", "links_done"} /\ Wrapped(token)) =>
        LET inner == Inner(token)
            n == Len(inner)
        IN  /\ Plain(inner) => link = Parsed(token, Some(inner), None, None)
            /\ \A i \in 1..n :
                (/\ inner[i] = "#"
                 /\ Plain(Take(inner, i - 1))
                 /\ Plain(Skip(inner, i)))
                => link = Parsed(token, Some(Take(inner, i - 1)),
                                 Some(Skip(inner, i - 1)), None)
            /\ \A i \in 1..n :
                (/\ inner[i] = "|"
                 /\ Plain(Take(inner, i - 1))
                 /\ Plain(Skip(inner, i)))
                => link = Parsed(token, Some(Take(inner, i - 1)), None,
                                 Some(Skip(inner, i - 1)))
            /\ \A i \in 1..n : \A j \in (i + 1)..n :
                (/\ inner[i] = "#"
                 /\ inner[j] = "|"
                 /\ Plain(Take(inner, i - 1))
                 /\ Plain(SubSeq(inner, i + 1, j - 1))
                 /\ Plain(Skip(inner, j)))
                => link = Parsed(token, Some(Take(inner, i - 1)),
                                 Some(SubSeq(inner, i, j - 1)),
                                 Some(Skip(inner, j - 1)))
            /\ (n >= 2 /\ inner[1] = "#" /\ Plain(Skip(inner, 1)))
                => (link.err = "Ok" /\ link.opt_file_link = None
                    /\ link.opt_sublink = Some(inner))

\* C5 witness: the full form [[a#b|a]] was parsed into its three components
C5_Witness ==
    /\ pc = "link_done"
    /\ token = LB \o <<"a", "#", "b", "|", "a">> \o RB
    /\ link = Parsed(token, Some(<<"a">>), Some(<<"#", "b">>), Some(<<"|", "a">>))

-----------------------------------------------------------------------------
(* Claims about the document extractors (SpecDoc) *)

\* the suffix of s that begins at its last ^, when it is ^ followed only by
\* alphanumeric or - characters
TrailingId(s) ==
    IF \A i \in 1..Len(s) : s[i] # "^" THEN None
    ELSE LET k == CHOOSE i \in 1..Len(s) :
                    s[i] = "^" /\ \A j \in (i + 1)..Len(s) : s[j] # "^"
         IN  IF \A j \in (k + 1)..Len(s) : IsAlphanumeric(s[j]) \/ s[j] = "-"
             THEN Some(SubSeq(s, k, Len(s)))
             ELSE None

\* the block-identifier linkables C2 expects, in event order
RECURSIVE ExpectedBlockIdentifierItems(_)
ExpectedBlockIdentifierItems(evs) ==
    IF evs = <<>> THEN <<>>
    ELSE (IF Head(evs).kind = "Text" /\ TrailingId(Head(evs).text).some
          THEN <<[item_data |-> BlockIdentifierData(TrailingId(Head(evs).text).val),
                  event |-> Head(evs)]>>
          ELSE <<>>) \o ExpectedBlockIdentifierItems(Tail(evs))

IsBlockIdentifierItem(item) == item.item_data.kind = "BlockIdentifier"

IsSpawning(rel) == rel.kind = "Spawning"

\* a Text event of the shape of C1: trimmed text starting with "Spawn ", exactly
\* one wiki-link, and a trailing ^spawn... block identifier
SpawnShaped(e) ==
    /\ e.kind = "Text"
    /\ StartsWith(Trim(e.text), S_Spawn)
    /\ Len(LinkTokensOf(e.text)) = 1
    /\ TrailingId(e.text).some
    /\ StartsWith(TrailingId(e.text).val, S_CaretSpawn)

\* C1 as stated: when the document holds one spawn-shaped Text event, the
\* inferencer fed with the extracted linkables and links emits exactly one
\* Spawning relation, whose block identifier is the trailing identifier of
\* that event, leading ^ included.
C1_SpawnPairing ==
    pc = "doc_spawn" =>
        \A i \in 1..Len(events) :
            (SpawnShaped(events[i])
                /\ \A j \in 1..Len(events) : SpawnShaped(events[j]) => j = i)
            => LET spawning == SelectSeq(spawn_metadata, IsSpawning)
               IN  /\ Len(spawning) = 1
                   /\ spawning[1].block_identifier = TrailingId(events[i].text).val

\* C2 as stated: a BlockIdentifier linkable is emitted for a Text event exactly
\* when the suffix of its text beginning at the last ^ is ^ followed only by
\* alphanumeric or - characters, with that suffix (^ included) as its text; no
\* other Text event yields one.
C2_BlockIdentifierExtraction ==
    pc # "doc_start" =>
        SelectSeq(linkables, IsBlockIdentifierItem) = ExpectedBlockIdentifierItems(events)

-----------------------------------------------------------------------------
(* Claims about the frontmatter extractor (SpecFm) *)

IsKeyValueText(e) == e.kind = "Text" /\ CountChar(e.text, ":") = 1

\* position n closes a frontmatter block: Rule, HeadingStart(H2), then only
\* SoftBreak and key:value Text events, then HeadingEnd(H2) at n
ClosesFrontmatter(evs, n) ==
    /\ n >= 3
    /\ evs[1] = Rule
    /\ evs[2] = HeadingStart(2)
    /\ evs[n] = HeadingEnd(2)
    /\ \A i \in 3..(n - 1) : evs[i] = SoftBreak \/ IsKeyValueText(evs[i])

\* the (key, value) pairs of the Text events among evs, in order
RECURSIVE KeyValuePairs(_)
KeyValuePairs(evs) ==
    IF evs = <<>> THEN <<>>
    ELSE (IF Head(evs).kind = "Text"
          THEN LET k == Position(Head(evs).text, ":").val
               IN  <<<<Take(Head(evs).text, k), Skip(Head(evs).text, k + 1)>>>>
          ELSE <<>>) \o KeyValuePairs(Tail(evs))

\* C6: the frontmatter section is the ordered list of (key, value) pairs, one
\* per Text event, if and only if the events begin with Rule, HeadingStart(H2),
\* then only SoftBreak and Text events with exactly one ':', then
\* HeadingEnd(H2); in every other case there is no frontmatter.
C6_FrontmatterRecognition ==
    pc # "fm_start" =>
        IF \E n \in 1..Len(events) : ClosesFrontmatter(events, n)
        THEN LET n == CHOOSE n \in 1..Len(events) : ClosesFrontmatter(events, n)
             IN  props = Some(KeyValuePairs(SubSeq(events, 3, n - 1)))
        ELSE props = None

\* C6 witness: a block of two properties separated by a soft break was recognized
C6_Witness ==
    /\ pc = "fm_parsed"
    /\ Len(events) >= 5
    /\ props.some
    /\ Len(props.val) = 2
    /\ props.val[1] # props.val[2]

\* C6 witness of the other direction: a block closed by a heading end of
\* another level yields no frontmatter
C6_WitnessRejected ==
    /\ pc = "fm_parsed"
    /\ Len(events) = 4
    /\ events[1] = Rule /\ events[2] = HeadingStart(2)
    /\ IsKeyValueText(events[3])
    /\ events[4] = HeadingEnd(1)
    /\ props = None

\* the lookup C7 describes: the first property with the key; its trimmed value
\* with the surrounding brackets stripped when it is wiki-link-shaped
LookupAsStated(found, key) ==
    IF ~found.some THEN None
    ELSE IF \A i \in 1..Len(found.val) : found.val[i][1] # key THEN None
    ELSE LET first == CHOOSE i \in 1..Len(found.val) :
                        /\ found.val[i][1] = key
                        /\ \A j \in 1..(i - 1) : found.val[j][1] # key
             value == Trim(found.val[first][2])
         IN  IF Len(value) >= 4 /\ StartsWith(value, LB) /\ EndsWith(value, RB)
             THEN Some(SubSeq(value, 3, Len(value) - 2))
             ELSE None

\* C7 as stated: the lookup resolves the first property in document order with
\* the requested key; a trimmed value that starts with [[ and ends with ]] is
\* returned with the surrounding brackets stripped; otherwise nothing.
C7_NotePropertyLookup ==
    pc = "fm_looked_up" => note_property = LookupAsStated(props, prop)

-----------------------------------------------------------------------------
(* Claims about the legacy-record grouper (SpecLegacy) *)

\* the H1 group at i establishes a type: its label is one of the six
EstablishesType(groups, i) ==
    groups[i].kind = "H1" /\ IsOldFormatHeading(groups[i].text)

\* the content group at i is reached by the pairing pass: the nearest H1 group
\* before it carries a legacy label
ReachedContent(groups, i) ==
    /\ groups[i].kind = "Content"
    /\ \E h \in 1..(i - 1) :
        /\ EstablishesType(groups, h)
        /\ \A k \in (h + 1)..(i - 1) : groups[k].kind # "H1"

-----------------------------------------------------------------------------
(* Claims about the patch reconciler (SpecPatch) *)

\* the contribution of one pass-1 chunk, as the decision table states it
TableOne(change) ==
    LET s == change.value
        trimmed == Trim(s)
    IN  IF change.tag = "Equal" THEN s
        ELSE IF change.tag = "Delete"
        THEN IF trimmed = <<"\\">> \/ trimmed = <<"_">> THEN s
             ELSE IF trimmed = <<"-", "-", "-">> THEN <<"\n", "-", "-", "-">>
             ELSE <<>>
        ELSE IF trimmed = <<"-", " ", "\\">> \/ trimmed = <<"\\", "|">>
        THEN SelectSeq(s, LAMBDA c : c # "\\")
        ELSE IF trimmed = <<>> /\ \E k \in 1..Len(s) : s[k] = "\n" THEN <<"\n">>
        ELSE IF trimmed = <<"\\">> \/ trimmed = <<"#", "#">> \/ trimmed = <<>>
        THEN <<>>
        ELSE s

\* the contribution of one pass-2 chunk, as the decision table states it
TableTwo(change) ==
    LET s == change.value
        trimmed == Trim(s)
    IN  IF change.tag = "Equal" THEN s
        ELSE IF change.tag = "Delete"
        THEN IF trimmed = <<"\\">> \/ trimmed = <<"_">> THEN s ELSE <<>>
        ELSE IF trimmed = <<"-">> THEN <<"-", " ">>
        ELSE IF trimmed \in {<<"\\">>, <<>>, <<"*">>, <<">">>} THEN <<>>
        ELSE s

RECURSIVE ConcatTableOne(_)
ConcatTableOne(changes) ==
    IF changes = <<>> THEN <<>>
    ELSE TableOne(Head(changes)) \o ConcatTableOne(Tail(changes))

RECURSIVE ConcatTableTwo(_)
ConcatTableTwo(changes) ==
    IF changes = <<>> THEN <<>>
    ELSE TableTwo(Head(changes)) \o ConcatTableTwo(Tail(changes))

\* the text a change list consumes on the side of the given tags
RECURSIVE SideOf(_, _)
SideOf(changes, tags) ==
    IF changes = <<>> THEN <<>>
    ELSE (IF Head(changes).tag \in tags THEN Head(changes).value ELSE <<>>)
            \o SideOf(Tail(changes), tags)

\* the changes walked so far are the start of a word-level change list between
\* the original and the rendered text
WordChangesBetween(changes, old, new) ==
    /\ SideOf(changes, {"Equal", "Delete"}) = Take(old, Len(SideOf(changes, {"Equal", "Delete"})))
    /\ SideOf(changes, {"Equal", "Insert"}) = Take(new, Len(SideOf(changes, {"Equal", "Insert"})))
    /\ \A k \in 1..Len(changes) :
        /\ changes[k].value # <<>>
        /\ \A c, d \in 1..Len(changes[k].value) :
            IsWhitespace(changes[k].value[c]) = IsWhitespace(changes[k].value[d])

\* C9: the pass-1 result is the in-order concatenation, over the word-level
\* change list between the original and the rendered text, of one contribution
\* per chunk: an equal chunk itself; a deleted chunk itself if it trims to a
\* backslash or an underscore, a newline and --- if it trims to ---, nothing
\* otherwise; an inserted chunk itself without backslashes if it trims to
\* dash-space-backslash or backslash-pipe, one newline if it is blank with a
\* newline, nothing if it trims to a backslash, ## or is blank without a
\* newline, itself otherwise.
C9_PassOneDecisionTable ==
    pc \in {"pass1", "pass2", "patched"} =>
        /\ new_content1 = ConcatTableOne(changes1)
        /\ WordChangesBetween(changes1, old_content, new_content)
        /\ pc # "pass1" =>
            /\ SideOf(changes1, {"Equal", "Delete"}) = old_content
            /\ SideOf(changes1, {"Equal", "Insert"}) = new_content

\* C9 witness: pass 1 has finished over a change list that deleted a --- and
\* inserted a backslash-pipe and a blank run with a newline
C9_Witness ==
    /\ pc = "pass2"
    /\ \E i, j, k \in 1..Len(changes1) :
        /\ changes1[i] = Change("Delete", <<"-", "-", "-">>)
        /\ changes1[j] = Change("Insert", <<" ", "\n">>)
        /\ changes1[k] = Change("Insert", <<"\\", "|">>)
    /\ new_content1 # new_content

\* C10: pass 2 diffs the original text against the result of pass 1, not
\* against the rendered text, one character per chunk, and its output is the
\* in-order concatenation of one contribution per chunk: an equal chunk itself;
\* a deleted chunk itself if it trims to a backslash or an underscore, nothing
\* otherwise; an inserted chunk dash-space if it trims to a dash, nothing if
\* it trims to a backslash, nothing, * or >, itself otherwise.
C10_PassTwoDecisionTable ==
    pc \in {"pass2", "patched"} =>
        /\ out2 = ConcatTableTwo(changes2)
        /\ \A k \in 1..Len(changes2) : Len(changes2[k].value) = 1
        /\ SideOf(changes2, {"Equal", "Delete"}) = Take(old_content, cur_old)
        /\ SideOf(changes2, {"Equal", "Insert"}) = Take(new_content1, cur_new)
        /\ pc = "patched" =>
            /\ SideOf(changes2, {"Equal", "Delete"}) = old_content
            /\ SideOf(changes2, {"Equal", "Insert"}) = new_content1

\* C10 witness: pass 2 has finished, the result of pass 1 differed from the
\* rendered text, and the character changes inserted a dash and deleted a
\* backslash
C10_Witness ==
    /\ pc = "patched"
    /\ new_content1 # new_content
    /\ \E i, j \in 1..Len(changes2) :
        /\ changes2[i] = Change("Insert", <<"-">>)
        /\ changes2[j] = Change("Delete", <<"\\">>)

-----------------------------------------------------------------------------
(* Claims about the section segmenter (SpecLegacy) *)

\* the loop iterations taken so far: one per skipped leading event and one
\* per emitted group
IterationsSoFar ==
    IF mut_grouped_events = <<>> THEN mut_cur
    ELSE mut_grouped_events[1].start + Len(mut_grouped_events)

\* the cursor moved forward in one of the three stated ways
AdvancesAsStated ==
    \/ /\ Len(mut_grouped_events') = Len(mut_grouped_events) + 1
       /\ mut_grouped_events'[Len(mut_grouped_events')].kind \in {"H1", "H2"}
       /\ mut_cur' = mut_cur + 3
    \/ /\ mut_grouped_events = <<>>
       /\ mut_grouped_events' = <<>>
       /\ mut_cur' = mut_cur + 1
    \/ /\ Len(mut_grouped_events') = Len(mut_grouped_events) + 1
       /\ mut_grouped_events'[Len(mut_grouped_events')].kind = "Content"
       /\ Len(mut_grouped_events'[Len(mut_grouped_events')].events) >= 1
       /\ mut_cur' = mut_cur
                        + Len(mut_grouped_events'[Len(mut_grouped_events')].events)

\* C12: the forward pass ends after at most one loop iteration per event:
\* every iteration either strictly advances the cursor (by 3 on a heading
\* match, by 1 while skipping leading material, by the content-run length of
\* at least 1) or stops with the fatal error; the cursor never moves backward,
\* never stays in place, and never passes the end of the sequence.
C12_SegmenterTerminates ==
    /\ [](/\ IterationsSoFar <= mut_cur
          /\ mut_cur <= Len(events))
    /\ [][pc = "segmenting" =>
            \/ pc' = "panicked"
            \/ pc' = "returned" /\ mut_cur' = mut_cur /\ mut_cur = Len(events)
            \/ pc' = "segmenting" /\ mut_cur' > mut_cur /\ AdvancesAsStated]_vars

\* C12 witness: the pass is over after skipping leading material, matching a
\* heading and consuming a content run of more than one event
C12_Witness ==
    /\ pc = "returned"
    /\ mut_grouped_events # <<>>
    /\ mut_grouped_events[1].start > 0
    /\ \E k \in 1..Len(mut_grouped_events) :
        /\ mut_grouped_events[k].kind = "Content"
        /\ Len(mut_grouped_events[k].events) > 1

\* events[i+1..i+3] are HeadingStart, Text, HeadingEnd of the given level
\* (i counts the events before the heading)
IsHeadingTriple(evs, i, level) ==
    /\ i + 3 <= Len(evs)
    /\ evs[i + 1] = HeadingStart(level)
    /\ evs[i + 2].kind = "Text"
    /\ evs[i + 3] = HeadingEnd(level)

StartsSection(e) == e.kind = "HeadingStart" /\ e.level \in {1, 2}

\* the number of events a group covers
Extent(grp) == IF grp.kind = "Content" THEN Len(grp.events) ELSE 3

\* C13: whenever segmentation completes, the groups tile the events from the
\* first matched H1/H2 heading to the end with no gap and no overlap; a
\* heading group covers exactly its 3 events; a Content group is a non-empty
\* run with no HeadingStart(H1/H2), followed by such a heading start or by
\* the end; the first group is a heading; no two Content groups are adjacent.
C13_SegmenterOutputShape ==
    pc = "returned" =>
        LET g == mut_grouped_events
        IN  /\ g = <<>> =>
                \A i \in 0..Len(events) :
                    ~IsHeadingTriple(events, i, 1) /\ ~IsHeadingTriple(events, i, 2)
            /\ g # <<>> =>
                /\ g[1].kind \in {"H1", "H2"}
                /\ \A i \in 0..(g[1].start - 1) :
                    ~IsHeadingTriple(events, i, 1) /\ ~IsHeadingTriple(events, i, 2)
                /\ g[Len(g)].start + Extent(g[Len(g)]) = Len(events)
            /\ \A k \in 1..Len(g) :
                /\ k < Len(g) => g[k + 1].start = g[k].start + Extent(g[k])
                /\ g[k].kind = "H1" =>
                    IsHeadingTriple(events, g[k].start, 1)
                        /\ g[k].text = events[g[k].start + 2].text
                /\ g[k].kind = "H2" =>
                    IsHeadingTriple(events, g[k].start, 2)
                        /\ g[k].text = events[g[k].start + 2].text
                /\ g[k].kind = "Content" =>
                    /\ g[k].events # <<>>
                    /\ g[k].events
                        = SubSeq(events, g[k].start + 1, g[k].start + Len(g[k].events))
                    /\ \A j \in 1..Len(g[k].events) : ~StartsSection(g[k].events[j])
                    /\ k < Len(g) => g[k + 1].kind # "Content"
                    /\ g[k].start + Len(g[k].events) < Len(events) =>
                        StartsSection(events[g[k].start + Len(g[k].events) + 1])

\* C13 witness: segmentation completed with leading material skipped, a
\* Content group of several events that holds an H3 heading, and a heading
\* group after it
C13_Witness ==
    /\ pc = "returned"
    /\ \E k \in 1..Len(mut_grouped_events) :
        /\ mut_grouped_events[1].start > 0
        /\ mut_grouped_events[k].kind = "Content"
        /\ \E j \in 1..Len(mut_grouped_events[k].events) :
            mut_grouped_events[k].events[j] = HeadingStart(3)
        /\ k < Len(mut_grouped_events)

\* an H1 or H2 HeadingStart that is not followed by a Text event and a
\* HeadingEnd of the same level
HasMalformedHeading(evs) ==
    \E i \in 0..(Len(evs) - 1) :
        /\ StartsSection(evs[i + 1])
        /\ ~IsHeadingTriple(evs, i, evs[i + 1].level)

\* C14: for any event sequence with a malformed H1 or H2 heading, wherever it
\* occurs, get_note_old_format_entries does not return Ok: the malformed
\* heading is not skipped silently.
C14_MalformedHeadingIsFatal ==
    (pc = "returned" /\ HasMalformedHeading(events)) =>
        old_format_entries.err # "Ok"

-----------------------------------------------------------------------------
(* Claims about the two passes over the groups (SpecLegacy) *)

IsLegacyLabel(heading1) ==
    Trim(strip_autonumbered_sections(heading1))
        \in {H_Tasks, H_Issues, H_HowTos, H_Investigations, H_Ideas, H_SideNotes}

\* the index of the nearest H1 group before group k, 0 if there is none
LastH1Before(groups, k) ==
    IF \E h \in 1..(k - 1) : groups[h].kind = "H1"
    THEN CHOOSE h \in 1..(k - 1) :
            /\ groups[h].kind = "H1"
            /\ \A j \in (h + 1)..(k - 1) : groups[j].kind # "H1"
    ELSE 0

\* group k lies before the first H1 or under an H1 that carries no legacy label
LiesOutsideLegacy(groups, k) ==
    /\ groups[k].kind # "H1"
    /\ \/ LastH1Before(groups, k) = 0
       \/ ~IsLegacyLabel(groups[LastH1Before(groups, k)].text)

\* the events with the events of the groups outside the legacy sections deleted
RECURSIVE WithoutOutsideGroups(_, _, _)
WithoutOutsideGroups(evs, groups, k) ==
    IF k > Len(groups) THEN <<>>
    ELSE (IF LiesOutsideLegacy(groups, k) THEN <<>>
          ELSE SubSeq(evs, groups[k].start + 1, groups[k].start + Extent(groups[k])))
            \o WithoutOutsideGroups(evs, groups, k + 1)

ReducedEvents(evs, groups) ==
    IF groups = <<>> THEN evs
    ELSE SubSeq(evs, 1, groups[1].start) \o WithoutOutsideGroups(evs, groups, 1)

\* a result without the offsets of its entries
Outcome(res) ==
    [err |-> res.err,
     entries |-> [k \in 1..Len(res.entries) |->
                    [entry_type |-> res.entries[k].entry_type,
                     entry_name |-> res.entries[k].entry_name,
                     events |-> res.entries[k].events]]]

\* C15: the groups before the first H1 and under an H1 whose stripped, trimmed
\* text is none of the six legacy labels produce no entry, never update the
\* type or name and never cause an error: deleting their events from the
\* input leaves the result of get_note_old_format_entries unchanged.
C15_FirstPassFilter ==
    pc = "returned" =>
        /\ \A k \in 1..Len(mut_grouped_events) :
            LiesOutsideLegacy(mut_grouped_events, k) =>
                \A n \in 1..Len(old_format_entries.entries) :
                    old_format_entries.entries[n].start # mut_grouped_events[k].start
        /\ Outcome(get_note_old_format_entries(
                        ReducedEvents(events, mut_grouped_events)))
                = Outcome(old_format_entries)

\* C15 witness: the call returned an entry for a document that has an H2 and
\* a Content group outside the legacy sections
C15_Witness ==
    /\ pc = "returned"
    /\ old_format_entries.err = "Ok"
    /\ old_format_entries.entries # <<>>
    /\ \E k, j \in 1..Len(mut_grouped_events) :
        /\ LiesOutsideLegacy(mut_grouped_events, k)
        /\ mut_grouped_events[k].kind = "H2"
        /\ LiesOutsideLegacy(mut_grouped_events, j)
        /\ mut_grouped_events[j].kind = "Content"

\* group k is kept by the first pass: a legacy H1, or a group under one
IsRetained(groups, k) ==
    IF groups[k].kind = "H1" THEN IsLegacyLabel(groups[k].text)
    ELSE ~LiesOutsideLegacy(groups, k)

\* the indices of the retained Content groups, in document order
RECURSIVE RetainedContent(_, _)
RetainedContent(groups, k) ==
    IF k > Len(groups) THEN <<>>
    ELSE (IF groups[k].kind = "Content" /\ IsRetained(groups, k) THEN <<k>> ELSE <<>>)
            \o RetainedContent(groups, k + 1)

\* the index of the nearest retained group of the kind before group k
LastRetainedBefore(groups, k, kind) ==
    CHOOSE h \in 1..(k - 1) :
        /\ groups[h].kind = kind /\ IsRetained(groups, h)
        /\ \A j \in (h + 1)..(k - 1) :
            ~(groups[j].kind = kind /\ IsRetained(groups, j))

\* the type the six legacy labels stand for
TypeOfLabel(label) ==
    CASE label = <<"T", "a", "s", "k", "s">> -> "Task"
      [] label = <<"I", "s", "s", "u", "e", "s">> -> "Issue"
      [] label = <<"H", "o", "w", "T", "o", "s">> -> "HowTo"
      [] label = <<"I", "n", "v", "e", "s", "t", "i", "g", "a", "t", "i", "o", "n", "s">>
            -> "Investigation"
      [] label = <<"I", "d", "e", "a", "s">> -> "Idea"
      [] label = <<"S", "i", "d", "e", " ", "N", "o", "t", "e", "s">> -> "SideNote"
      [] OTHER -> "Unknown"

\* C16: when get_note_old_format_entries succeeds, the result holds exactly
\* one entry per retained Content group, in document order; its type is the
\* type of the most recent retained H1 label, its name the text of the most
\* recent retained H2, its events exactly the events of the group.
C16_LegacyPairing ==
    (pc = "returned" /\ old_format_entries.err = "Ok") =>
        LET g == mut_grouped_events
            content == RetainedContent(g, 1)
            entries == old_format_entries.entries
        IN  /\ Len(entries) = Len(content)
            /\ \A n \in 1..Len(content) :
                LET k == content[n]
                IN  /\ entries[n].start = g[k].start
                    /\ entries[n].events = g[k].events
                    /\ entries[n].entry_type
                        = TypeOfLabel(Trim(strip_autonumbered_sections(
                                g[LastRetainedBefore(g, k, "H1")].text)))
                    /\ entries[n].entry_name = g[LastRetainedBefore(g, k, "H2")].text

\* C16 witness: the call succeeded with two entries of different types, the
\* second under an H1 that follows the first entry
C16_Witness ==
    /\ pc = "returned"
    /\ old_format_entries.err = "Ok"
    /\ \E m, n \in 1..Len(old_format_entries.entries) :
        /\ m < n
        /\ old_format_entries.entries[m].entry_type
            # old_format_entries.entries[n].entry_type

\* C17: get_note_old_format_entries never returns InvalidEntryType: every H1
\* label the first pass retains (one of the six legacy labels after stripping
\* and trimming) is accepted by the label-to-type mapping of the second pass;
\* the mapping reports an unknown label as an error value.
C17_LabelMappingNeverFails ==
    /\ \A i \in 1..Len(OLD_FORMAT_HEADINGS) :
        OldFormatEntryType_from_str(OLD_FORMAT_HEADINGS[i]).some
    /\ \A k \in 1..Len(mut_grouped_events) :
        mut_grouped_events[k].kind = "H1" =>
            IF IsLegacyLabel(mut_grouped_events[k].text)
            THEN OldFormatEntryType_from_str(
                    Trim(strip_autonumbered_sections(mut_grouped_events[k].text))).some
            ELSE OldFormatEntryType_from_str(
                    Trim(strip_autonumbered_sections(mut_grouped_events[k].text))) = None
    /\ pc = "returned" => old_format_entries.err # "InvalidEntryType"

\* C17 witness: the call returned entries under an auto-numbered legacy H1 and
\* under a second legacy label, with an H1 of no legacy label in the document
C17_Witness ==
    /\ pc = "returned"
    /\ old_format_entries.err = "Ok"
    /\ old_format_entries.entries # <<>>
    /\ \E i, j, k \in 1..Len(mut_grouped_events) :
        /\ mut_grouped_events[i] = Grouped("H1", H_NumberedTasks, mut_grouped_events[i].start, <<>>)
        /\ mut_grouped_events[j] = Grouped("H1", H_Issues, mut_grouped_events[j].start, <<>>)
        /\ mut_grouped_events[k] = Grouped("H1", H_Other, mut_grouped_events[k].start, <<>>)

-----------------------------------------------------------------------------
(* Claims about the auto-number stripper (SpecStrip) *)

\* the text before the first whitespace character
FirstToken(t) ==
    IF \E i \in 1..Len(t) : IsWhitespace(t[i])
    THEN SubSeq(t, 1, (CHOOSE i \in 1..Len(t) :
                        IsWhitespace(t[i]) /\ \A j \in 1..(i - 1) : ~IsWhitespace(t[j])) - 1)
    ELSE t

\* every dot-separated segment of the token reads as a non-negative integer
LooksNumbered(tok) ==
    LET segs == Split(tok, <<".">>)
    IN  \A i \in 1..Len(segs) :
            /\ segs[i] # <<>>
            /\ \A c \in 1..Len(segs[i]) :
                segs[i][c] \in {"0", "1", "2", "3", "4", "5", "6", "7", "8", "9"}

\* C18: when every dot-separated segment of the first whitespace-delimited
\* token parses as a non-negative integer, strip_autonumbered_sections returns
\* the text with that first token removed and the rest left intact (later
\* occurrences of the same digits are kept); otherwise the text unchanged.
C18_StripsOnlyFirstToken ==
    pc = "strip_done" =>
        stripped = IF LooksNumbered(FirstToken(heading_text))
                   THEN Skip(heading_text, Len(FirstToken(heading_text)))
                   ELSE heading_text

-----------------------------------------------------------------------------
(* Claims about the heading linkables (SpecDoc) *)

\* the Heading linkables the scan is said to emit from position i on: one per
\* position where a HeadingStart, a Text and a HeadingEnd of the same level
\* follow each other
RECURSIVE ExpectedHeadingItems(_, _)
ExpectedHeadingItems(evs, i) ==
    IF i > Len(evs) THEN <<>>
    ELSE (IF /\ i + 2 <= Len(evs)
             /\ evs[i].kind = "HeadingStart"
             /\ evs[i + 1].kind = "Text"
             /\ evs[i + 2].kind = "HeadingEnd"
             /\ evs[i + 2].level = evs[i].level
          THEN <<[item_data |-> [kind |-> "Heading", level |-> evs[i].level,
                                 text |-> evs[i + 1].text],
                  event |-> evs[i]]>>
          ELSE <<>>) \o ExpectedHeadingItems(evs, i + 1)

\* C20: extract_linkable_obsidian_md_items emits a Heading(level, text)
\* linkable for position i exactly when events[i], events[i+1], events[i+2]
\* are HeadingStart(level), Text(text), HeadingEnd(level) of the same level; a
\* start and an end of different levels is not a heading match.
C20_HeadingLinkableScan ==
    pc # "doc_start" =>
        SelectSeq(linkables, LAMBDA item : item.item_data.kind = "Heading")
            = ExpectedHeadingItems(events, 1)

-----------------------------------------------------------------------------
(* Claims about a run over a vault (SpecVault) *)

\* the file has one of the fatal errors under the subcommand: the renderer
\* fails, a link is malformed, a heading is malformed, or the legacy sections
\* cannot be paired
HasFatalError(cmd, f) ==
    \/ ~f.renders
    \/ /\ cmd = "extract_old_format_records"
       /\ \/ extract_obsidian_md_links(f.events).err # "Ok"
          \/ HasMalformedHeading(f.events)
          \/ get_note_old_format_entries(f.events).err # "Ok"

\* C11: when the files of a vault are processed in sequence, a fatal error on
\* one file aborts writing for that file only: the run does not end before
\* the last file, every file is gone through, and nothing is written for a
\* failing file.
C11_PerDocumentIsolation ==
    /\ pc # "vault_panicked"
    /\ pc = "vault_done" =>
        /\ Len(outputs) = Len(WalkedFiles(command, vault))
        /\ \A i \in 1..Len(outputs) :
            HasFatalError(command, WalkedFiles(command, vault)[i])
                => outputs[i].outcome # "Some"


-----------------------------------------------------------------------------
(* Claims about link tokenization (SpecLink) *)

\* the substrings of a text that run from each [[ to the first ]] after it:
\* the text after each [[, up to the next [[, cut right after its first ]]
RECURSIVE BracketedSubstrings(_)
BracketedSubstrings(pieces) ==
    IF pieces = <<>> THEN <<>>
    ELSE LET piece == Head(pieces)
         IN  (IF Contains(piece, RB)
              THEN <<LB \o Take(piece, FindChar(piece, RB) + Len(RB))>>
              ELSE <<>>) \o BracketedSubstrings(Tail(pieces))

ExpectedLinkTexts(s) == BracketedSubstrings(Tail(Split(s, LB)))

\* the link items C21 expects: one per Text event with a [[ ... ]] occurrence
RECURSIVE ExpectedLinkItems(_)
ExpectedLinkItems(evs) ==
    IF evs = <<>> THEN <<>>
    ELSE (IF Head(evs).kind = "Text" /\ ExpectedLinkTexts(Head(evs).text) # <<>>
          THEN <<[texts |-> ExpectedLinkTexts(Head(evs).text), event |-> Head(evs)]>>
          ELSE <<>>) \o ExpectedLinkItems(Tail(evs))

\* C21 as stated: on success, extract_obsidian_md_links returns, in event
\* order, one item for each Text event that holds a [[ ... ]] occurrence and
\* nothing for any other event, and the links of an item are, in order, the
\* substrings running from each [[ to the first ]] that follows it, for texts
\* of any characters.
C21_LinkTokenization ==
    (pc = "links_done" /\ links.err = "Ok") =>
        [i \in 1..Len(links.items) |->
            [texts |-> [k \in 1..Len(links.items[i].links) |->
                            links.items[i].links[k].text],
             event |-> links.items[i].event]]
        = ExpectedLinkItems(events)


-----------------------------------------------------------------------------
(* Specification of the spawn inferencer on its own: linkables and link     *)
(* items are drawn, extract_spawn_metadata_from_old_format is applied        *)

\* most linkables and link items handed to the inferencer, together
MaxSpawnItems == 3

L_T == ObsidianLink_from_str(LB \o <<"T">> \o RB)

L_U == ObsidianLink_from_str(LB \o <<"U">> \o RB)

\* [[#^spawn]]
L_SpawnId == ObsidianLink_from_str(LB \o <<"#">> \o S_CaretSpawn \o RB)

\* [[#spawn!]]
L_BadId == ObsidianLink_from_str(LB \o <<"#">> \o S_spawn \o <<"!">> \o RB)

\* [[spawn]]
L_NoSublink == ObsidianLink_from_str(LB \o S_spawn \o RB)

Linkable(data, event) == [item_data |-> data, event |-> event]

LinkItem(found, event) == [links |-> found, event |-> event]

\* " Spawn x"
E_Spawn == Text(<<" ">> \o S_Spawn \o <<"x">>)

\* "See x"
E_See == Text(<<"S", "e", "e", " ", "x">>)

\* "From in"
E_FromIn == Text(S_From \o S_in)

\* "From x"
E_From == Text(S_From \o <<"x">>)

SpawnLinkables ==
    { Linkable(BlockIdentifierData(S_CaretSpawn), E_Spawn),
      Linkable(BlockIdentifierData(S_CaretSpawn), E_See),
      Linkable(BlockIdentifierData(S_CaretSpawn), HeadingStart(1)),
      Linkable(BlockIdentifierData(<<"^", "a">>), E_Spawn),
      Linkable(HeadingData(1, T_Plain), E_Spawn),
      Linkable(HeadingData(1, T_Plain), HeadingStart(1)) }

SpawnLinkItems ==
    { LinkItem(<<L_T>>, E_Spawn),
      LinkItem(<<L_T, L_U>>, E_Spawn),
      LinkItem(<<>>, E_Spawn),
      LinkItem(<<L_T>>, E_See),
      LinkItem(<<L_T>>, HeadingStart(1)),
      LinkItem(<<L_SpawnId, L_U>>, E_FromIn),
      LinkItem(<<L_SpawnId, L_U>>, E_From),
      LinkItem(<<L_SpawnId, L_U>>, HeadingStart(1)),
      LinkItem(<<L_T, L_U>>, E_FromIn),
      LinkItem(<<L_BadId, L_U>>, E_FromIn),
      LinkItem(<<L_NoSublink, L_U>>, E_FromIn),
      LinkItem(<<L_SpawnId>>, E_FromIn) }

InitSpawn ==
    /\ context_type_id = 0 /\ is_doer = "NotRun"
    /\ path = <<>> /\ fs = <<>> /\ fs_before = <<>> /\ out = "NotRun"
    /\ pc = "spawn_start"
    /\ \E n \in 0..MaxSpawnItems : \E m \in 0..(MaxSpawnItems - n) :
        /\ linkables \in [1..n -> SpawnLinkables]
        /\ \E items \in [1..m -> SpawnLinkItems] :
                links = [err |-> "Ok", items |-> items]
    /\ events = <<>> /\ spawn_metadata = <<>>
    /\ mut_cur = 0 /\ mut_grouped_events = <<>> /\ old_format_entries = NoEntries
    /\ token = <<>> /\ link = NoLink
    /\ prop = <<>> /\ props = None /\ note_property = None
    /\ old_content = <<>> /\ new_content = <<>> /\ cur_old = 0 /\ cur_new = 0
    /\ changes1 = <<>> /\ new_content1 = <<>> /\ changes2 = <<>> /\ out2 = <<>>
    /\ heading_text = <<>> /\ stripped = <<>>
    /\ command = "none" /\ vault = <<>> /\ cur_item = 0 /\ outputs = <<>>

InferSpawn ==
    /\ pc = "spawn_start"
    /\ spawn_metadata' = extract_spawn_metadata_from_old_format(linkables, links.items)
    /\ pc' = "spawn_done"
    /\ UNCHANGED <<doerVars, turnVars, stripVars, vaultVars, linkVars, events, linkables, links, legacyVars,
                   fmVars, patchVars>>

NextSpawn == InferSpawn

SpecSpawn == InitSpawn /\ [][NextSpawn]_vars

-----------------------------------------------------------------------------
(* Claims about the spawn inferencer (SpecSpawn, SpecDoc) *)

IsSpawned(rel) == rel.kind = "Spawned"

\* the conditions of C22 on a (linkable, link item) pair
SpawningPair(lk, ln) ==
    /\ lk.event = ln.event
    /\ lk.item_data.kind = "BlockIdentifier"
    /\ StartsWith(lk.item_data.text, S_CaretSpawn)
    /\ lk.event.kind = "Text"
    /\ StartsWith(Trim(lk.event.text), S_Spawn)
    /\ Len(ln.links) = 1

\* the Spawning relations C22 expects, pair by pair (linkables outermost)
ExpectedSpawning(lks, lns) ==
    LET m == Len(lns)
        Pair(p) == [linkable |-> lks[((p - 1) \div m) + 1],
                    link |-> lns[((p - 1) % m) + 1]]
        all == [p \in 1..(Len(lks) * m) |-> Pair(p)]
        Holds(pr) == SpawningPair(pr.linkable, pr.link)
        kept == SelectSeq(all, Holds)
    IN  [p \in 1..Len(kept) |->
            [kind |-> "Spawning", event |-> kept[p].link.event,
             note_link |-> kept[p].link.links[1],
             block_identifier |-> kept[p].linkable.item_data.text]]

\* C22: a Spawning relation is emitted for a (linkable, link item) pair exactly
\* when both have the same source event, the linkable is a BlockIdentifier whose
\* text starts with "^spawn", the event's text trimmed starts with "Spawn ", and
\* the link item has exactly one wiki-link; its note_link is that link and its
\* block_identifier the linkable's. Heading linkables and link items with zero
\* or several links give none.
C22_SpawningConditions ==
    pc = "spawn_done" =>
        SelectSeq(spawn_metadata, IsSpawning) = ExpectedSpawning(linkables, links.items)

\* C22 witness: a Spawning relation was emitted for an event whose text has a
\* leading blank, next to a link item of the same event with two links
C22_Witness ==
    /\ pc = "spawn_done"
    /\ Len(linkables) = 1 /\ linkables[1].event = E_Spawn
    /\ Len(links.items) = 2
    /\ \A j \in 1..2 : links.items[j].event = E_Spawn
    /\ Len(links.items[1].links) = 2
    /\ Len(SelectSeq(spawn_metadata, IsSpawning)) = 1

\* the conditions of C23 on a link item
SpawnedItem(ln) ==
    /\ Len(ln.links) = 2
    /\ ln.event.kind = "Text"
    /\ StartsWith(ln.event.text, S_From)
    /\ Contains(ln.event.text, S_in)
    /\ Contains(ln.links[1].text, S_spawn)
    /\ ln.links[1].opt_sublink.some
    /\ BlockIdentifier_from_str(Remove(ln.links[1].opt_sublink.val, <<"#">>)).some

\* C23: the Spawned relations are the same for every linkable set; a link item
\* gives one, with note_link its second link, exactly when it has two
\* wiki-links, its text starts with "From " and contains "in", its first link's
\* raw text contains "spawn" and that link's sublink without the # is a valid
\* block identifier; every Spawned relation follows every Spawning relation.
C23_SpawnedConditions ==
    pc = "spawn_done" =>
        LET spawned == SelectSeq(spawn_metadata, IsSpawned)
            kept == SelectSeq(links.items, SpawnedItem)
        IN  /\ Len(spawned) = Len(kept)
            /\ \A p \in 1..Len(kept) :
                /\ spawned[p].event = kept[p].event
                /\ spawned[p].note_link = kept[p].links[2]
            /\ \A lks \in SeqsUpTo(SpawnLinkables, 1) :
                SelectSeq(extract_spawn_metadata_from_old_format(lks, links.items),
                          IsSpawned) = spawned
            /\ \A i \in 1..Len(spawn_metadata) : \A j \in (i + 1)..Len(spawn_metadata) :
                ~(IsSpawned(spawn_metadata[i]) /\ IsSpawning(spawn_metadata[j]))

\* C23 witness: the output holds a Spawning relation followed by a Spawned one
\* whose note_link is the second link of its item
C23_Witness ==
    /\ pc = "spawn_done"
    /\ Len(spawn_metadata) = 2
    /\ IsSpawning(spawn_metadata[1])
    /\ IsSpawned(spawn_metadata[2])
    /\ spawn_metadata[2].note_link = L_U

\* C23 witness: a link item with a "From " text without "in" gave no relation
C23_WitnessExcluded ==
    /\ pc = "spawn_done"
    /\ Len(links.items) = 1
    /\ links.items[1] = LinkItem(<<L_SpawnId, L_U>>, E_From)
    /\ spawn_metadata = <<>>


\* the number of Text events of a document that satisfy the Spawning conditions
RECURSIVE SpawnShapedCount(_)
SpawnShapedCount(evs) ==
    IF evs = <<>> THEN 0
    ELSE (IF SpawnShaped(Head(evs)) THEN 1 ELSE 0) + SpawnShapedCount(Tail(evs))

\* C25 as stated: for linkables and links extracted from one event sequence,
\* the number of Spawning relations emitted equals the number of Text events
\* that satisfy the Spawning conditions and never exceeds the number of link
\* items, also when several Text events have equal text.
C25_OneSpawningPerEvent ==
    pc = "doc_spawn" =>
        LET spawning == SelectSeq(spawn_metadata, IsSpawning)
        IN  /\ Len(spawning) = SpawnShapedCount(events)
            /\ Len(spawning) <= Len(links.items)


-----------------------------------------------------------------------------
(* Claims about the reconciler on an unchanged candidate (SpecPatch) *)

IsEqualChange(change) == change.tag = "Equal"

\* C24: adhoc_fix_rendered_markdown_output_for_obsidian(x, x) = x: when the
\* rendered text equals the original, both passes see only equal chunks, the
\* result of pass 1 is the original and so is the output.
C24_IdentityOnUnchanged ==
    new_content = old_content =>
        /\ \A k \in 1..Len(changes1) : IsEqualChange(changes1[k])
        /\ \A k \in 1..Len(changes2) : IsEqualChange(changes2[k])
        /\ pc = "pass1" => new_content1 = SideOf(changes1, {"Equal"})
        /\ pc \in {"pass2", "patched"} => new_content1 = old_content
        /\ pc = "pass2" => out2 = Take(old_content, cur_old)
        /\ pc = "patched" => out2 = old_content

\* C24 witness: the reconciler has returned on equal texts of MaxWords tokens that
\* hold a rule, a dash and a backslash, chunks it rewrites when they differ
C24_Witness ==
    /\ pc = "patched"
    /\ new_content = old_content
    /\ Len(Words(old_content)) = MaxWords
    /\ \E k \in 1..Len(old_content) : old_content[k] = "-"
    /\ \E k \in 1..Len(old_content) : old_content[k] = "\\"
    /\ out2 = old_content


-----------------------------------------------------------------------------
(* Claims about the section of an entry's name (SpecLegacy) *)

\* C26 as stated: for every entry returned by get_note_old_format_entries, the
\* Heading2 that supplies entry_name lies after the Heading1 that supplies
\* entry_type and before the entry's Content group; a name established under
\* an earlier H1 section never carries over to content under a later H1.
C26_NameBelongsToSection ==
    (pc = "returned" /\ old_format_entries.err = "Ok") =>
        LET g == mut_grouped_events
            content == RetainedContent(g, 1)
        IN  \A n \in 1..Len(content) :
                LET k == content[n]
                    h1 == LastRetainedBefore(g, k, "H1")
                    h2 == LastRetainedBefore(g, k, "H2")
                IN  h1 < h2 /\ h2 < k


-----------------------------------------------------------------------------
(* Claims about the components of an accepted link (SpecLink) *)

\* the text of an optional component, empty when it is absent
OptText(opt) == IF opt.some THEN opt.val ELSE <<>>

\* the part of an inner text before its |, the whole text when it has none
BeforeBar(inner) ==
    IF Position(inner, "|").some THEN Take(inner, Position(inner, "|").val)
    ELSE inner

\* C27 as stated: for every token accepted by ObsidianLink::from_str (at most
\* one # and at most one |, in either order), the sublink is present exactly
\* when the part before the | contains a # and, when present, begins with #
\* and contains no |; the title is present exactly when the token contains a |
\* and begins with |; file target, sublink and title concatenated in that
\* order equal the token's inner text.
C27_WellFormedComponents ==
    (pc \in {"link_done", "links_done"} /\ link.err = "Ok") =>
        LET inner == Inner(token)
        IN  /\ link.opt_sublink.some <=> Contains(BeforeBar(inner), <<"#">>)
            /\ link.opt_sublink.some =>
                /\ StartsWith(link.opt_sublink.val, <<"#">>)
                /\ ~Contains(link.opt_sublink.val, <<"|">>)
            /\ link.opt_title.some <=> Contains(inner, <<"|">>)
            /\ link.opt_title.some => StartsWith(link.opt_title.val, <<"|">>)
            /\ OptText(link.opt_file_link) \o OptText(link.opt_sublink)
                    \o OptText(link.opt_title) = inner


-----------------------------------------------------------------------------
(* Claims about the rewritten note (SpecVault) *)

\* the positions (from 1) of the events of the entries' Content groups
EntryPositions(entries) ==
    UNION {(entries[n].start + 1)..(entries[n].start + Len(entries[n].events)) :
                n \in 1..Len(entries)}

\* the events outside the positions, in their original order
RECURSIVE WithoutPositions(_, _, _)
WithoutPositions(evs, positions, k) ==
    IF k > Len(evs) THEN <<>>
    ELSE (IF k \in positions THEN <<>> ELSE <<evs[k]>>)
            \o WithoutPositions(evs, positions, k + 1)

\* C28 as stated: in the extract_old_format_records command, the event sequence
\* rendered and written for the rewritten note is the original sequence with
\* exactly the events at the positions of the legacy entries' Content groups
\* removed; every other event, also one equal in value to a removed event, is
\* kept in its original order.
C28_RemovalKeepsEverythingElse ==
    command = "extract_old_format_records" =>
        \A i \in 1..Len(outputs) :
            outputs[i].outcome = "Some" =>
                LET f == WalkedFiles(command, vault)[i]
                    entries == get_note_old_format_entries(f.events).entries
                IN  outputs[i].content
                        = WithoutPositions(f.events, EntryPositions(entries), 1)


-----------------------------------------------------------------------------
(* Specification of turn_note_into_cluster_note: a note and the state of    *)
(* the disk are drawn, then the function runs one filesystem call per step, *)
(* each of which the disk may fail                                          *)

\* longest content of the drawn note
MaxNoteLen == 2

NoteContents == SeqsUpTo({"x", "y"}, MaxNoteLen)

\* the note passed: whether its extension is md, and what
\* is_cluster_root_folder finds for its parent folder
NotePaths ==
    [is_md : BOOLEAN, parent : {"plain", "cluster", "unreadable"}]

\* the disk as far as the function touches it: the note at path, the folder
\* <parent>/<stem>, the file <parent>/<stem>/<file name>
Disk(note, folder, core) == [note |-> note, folder |-> folder, core |-> core]

\* is_markdown_file_path of the new core note path
is_markdown_file_path(disk, p) == disk.core.some /\ p.is_md

\* is_cluster_root_folder of the new folder, as an Option<bool>: the listing
\* may fail; the folder holds the copy, named like it, and no other file
is_cluster_root_folder(disk, readable) ==
    IF ~readable THEN None ELSE Some(disk.folder /\ disk.core.some)

\* CoreNoteFilePath::new of the new core note path, as "is Some"
CoreNoteFilePath_new(disk, p, readable) ==
    IF ~is_markdown_file_path(disk, p) THEN FALSE
    ELSE IF ~is_cluster_root_folder(disk, readable).some THEN FALSE
    ELSE is_cluster_root_folder(disk, readable).val

InitTurn ==
    /\ context_type_id = 0 /\ is_doer = "NotRun"
    /\ pc = "turn_start"
    /\ path \in NotePaths
    /\ \E content \in NoteContents, is_file \in BOOLEAN, folder \in BOOLEAN :
        fs = Disk(IF is_file THEN Some(content) ELSE None, folder, None)
    /\ fs_before = fs
    /\ out = "NotRun"
    /\ events = <<>> /\ linkables = <<>> /\ links = NoLinks /\ spawn_metadata = <<>>
    /\ mut_cur = 0 /\ mut_grouped_events = <<>> /\ old_format_entries = NoEntries
    /\ token = <<>> /\ link = NoLink
    /\ prop = <<>> /\ props = None /\ note_property = None
    /\ old_content = <<>> /\ new_content = <<>> /\ cur_old = 0 /\ cur_new = 0
    /\ changes1 = <<>> /\ new_content1 = <<>> /\ changes2 = <<>> /\ out2 = <<>>
    /\ heading_text = <<>> /\ stripped = <<>>
    /\ command = "none" /\ vault = <<>> /\ cur_item = 0 /\ outputs = <<>>

\* path.is_file() and the cluster-root check of the parent folder
TurnChecks ==
    /\ pc = "turn_start"
    /\ IF ~fs.note.some THEN out' = "NotAFile" /\ pc' = "turn_returned"
       ELSE IF path.parent = "unreadable"
            THEN out' = "AssertionFailed" /\ pc' = "turn_returned"
       ELSE IF path.parent = "cluster"
            THEN out' = "AlreadyInCluster" /\ pc' = "turn_returned"
       ELSE out' = out /\ pc' = "turn_checked"
    /\ UNCHANGED <<doerVars, path, fs, fs_before, stripVars, vaultVars, linkVars, docVars,
                   fmVars, patchVars>>

\* fs::create_dir(&new_cluster_root_folder)?
CreateDir ==
    /\ pc = "turn_checked"
    /\ \E ok \in BOOLEAN :
        IF ok /\ ~fs.folder
        THEN /\ fs' = [fs EXCEPT !.folder = TRUE]
             /\ out' = out /\ pc' = "turn_created"
        ELSE /\ fs' = fs
             /\ out' = "Io" /\ pc' = "turn_returned"
    /\ UNCHANGED <<doerVars, path, fs_before, stripVars, vaultVars, linkVars, docVars,
                   fmVars, patchVars>>

\* fs::copy(path, &new_core_note_path)?: the copy is made, or the call fails
\* with the destination not created or created and cut short
CopyNote ==
    /\ pc = "turn_created"
    /\ \E outcome \in {"copied", "failed", "cut_short"} :
        IF outcome = "copied"
        THEN /\ fs' = [fs EXCEPT !.core = fs.note]
             /\ out' = out /\ pc' = "turn_copied"
        ELSE /\ fs' = [fs EXCEPT !.core = IF outcome = "cut_short"
                                           THEN Some(<<>>) ELSE None]
             /\ out' = "Io" /\ pc' = "turn_returned"
    /\ UNCHANGED <<doerVars, path, fs_before, stripVars, vaultVars, linkVars, docVars,
                   fmVars, patchVars>>

\* fs::remove_file(path)?
RemoveNote ==
    /\ pc = "turn_copied"
    /\ \E ok \in BOOLEAN :
        IF ok
        THEN /\ fs' = [fs EXCEPT !.note = None]
             /\ out' = out /\ pc' = "turn_removed"
        ELSE /\ fs' = fs
             /\ out' = "Io" /\ pc' = "turn_returned"
    /\ UNCHANGED <<doerVars, path, fs_before, stripVars, vaultVars, linkVars, docVars,
                   fmVars, patchVars>>

\* CoreNoteFilePath::new(&new_core_note_path).ok_or(CoreNoteFilePathError)?
ValidateCore ==
    /\ pc = "turn_removed"
    /\ \E readable \in BOOLEAN :
        out' = IF CoreNoteFilePath_new(fs, path, readable) THEN "Ok"
               ELSE "CoreNoteFilePathError"
    /\ pc' = "turn_returned"
    /\ UNCHANGED <<doerVars, path, fs, fs_before, stripVars, vaultVars, linkVars, docVars,
                   fmVars, patchVars>>

NextTurn == TurnChecks \/ CreateDir \/ CopyNote \/ RemoveNote \/ ValidateCore

SpecTurn == InitTurn /\ [][NextTurn]_vars

-----------------------------------------------------------------------------
(* Claims about the conversion to a cluster note (SpecTurn) *)

\* C29 as stated: turn_note_into_cluster_note either succeeds, after which the
\* original file no longer exists and <parent>/<stem>/<file name> exists with
\* the original content and is a valid core note path, or returns an error
\* with the filesystem exactly as before the call, whichever of its steps
\* (create folder, copy, delete original, validate) fails.
C29_AtomicConversion ==
    pc = "turn_returned" =>
        IF out = "Ok"
        THEN /\ ~fs.note.some
             /\ fs.core = fs_before.note
             /\ fs.folder /\ path.is_md
        ELSE fs = fs_before


-----------------------------------------------------------------------------
(* context_type_is_doer *)

NUM_EXPECTED_FOLDERS == 7

\* "Entries"
H_Entries == <<"E", "n", "t", "r", "i", "e", "s">>

\* "Inferences"
H_Inferences == <<"I", "n", "f", "e", "r", "e", "n", "c", "e", "s">>

CONTEXT_TYPE_HEADINGS ==
    <<H_Entries, H_HowTos, H_Ideas, H_Inferences, H_Investigations, H_Issues,
      H_Tasks>>

\* "true" or "false", or "panic" when the index into CONTEXT_TYPE_HEADINGS is
\* out of bounds
context_type_is_doer(id) ==
    IF id > NUM_EXPECTED_FOLDERS THEN "false"
    ELSE IF id + 1 > Len(CONTEXT_TYPE_HEADINGS) THEN "panic"
    ELSE IF CONTEXT_TYPE_HEADINGS[id + 1]
                \in {H_HowTos, H_Investigations, H_Issues, H_Tasks}
         THEN "true" ELSE "false"

-----------------------------------------------------------------------------
(* Specification of context_type_is_doer: an index is drawn, the function  *)
(* is called                                                                *)

\* largest index drawn
MaxContextTypeId == 63

InitDoer ==
    /\ pc = "doer_start"
    /\ context_type_id \in 0..MaxContextTypeId
    /\ is_doer = "NotRun"
    /\ path = <<>> /\ fs = <<>> /\ fs_before = <<>> /\ out = "NotRun"
    /\ events = <<>> /\ linkables = <<>> /\ links = NoLinks /\ spawn_metadata = <<>>
    /\ mut_cur = 0 /\ mut_grouped_events = <<>> /\ old_format_entries = NoEntries
    /\ token = <<>> /\ link = NoLink
    /\ prop = <<>> /\ props = None /\ note_property = None
    /\ old_content = <<>> /\ new_content = <<>> /\ cur_old = 0 /\ cur_new = 0
    /\ changes1 = <<>> /\ new_content1 = <<>> /\ changes2 = <<>> /\ out2 = <<>>
    /\ heading_text = <<>> /\ stripped = <<>>
    /\ command = "none" /\ vault = <<>> /\ cur_item = 0 /\ outputs = <<>>

\* the call returns a bool
CallIsDoer ==
    /\ pc = "doer_start"
    /\ context_type_is_doer(context_type_id) # "panic"
    /\ is_doer' = context_type_is_doer(context_type_id)
    /\ pc' = "doer_returned"
    /\ UNCHANGED <<context_type_id, turnVars, stripVars, vaultVars, linkVars,
                   docVars, fmVars, patchVars>>

\* the call panics on the index
CallIsDoerPanics ==
    /\ pc = "doer_start"
    /\ context_type_is_doer(context_type_id) = "panic"
    /\ is_doer' = "panic"
    /\ pc' = "doer_panicked"
    /\ UNCHANGED <<context_type_id, turnVars, stripVars, vaultVars, linkVars,
                   docVars, fmVars, patchVars>>

NextDoer == CallIsDoer \/ CallIsDoerPanics

SpecDoer == InitDoer /\ [][NextDoer]_vars

-----------------------------------------------------------------------------
(* Claims about context_type_is_doer (SpecDoer) *)

\* C30 as stated: context_type_is_doer is total: for every index it returns
\* without panicking, true exactly for the indices of HowTos, Investigations,
\* Issues and Tasks in the 7-entry heading table and false for every other
\* index, including every index from 7 on.
C30_IsDoerIsTotal ==
    pc # "doer_start" =>
        /\ pc = "doer_returned"
        /\ is_doer = IF context_type_id \in {1, 4, 5, 6} THEN "true" ELSE "false"

====
